---- MODULE Spec2Model ----
(***************************************************************************)
(* A model of two subsystems of the StarRocks backend:                     *)
(*   - the connector scan node (be/src/exec/vectorized/                    *)
(*     connector_scan_node.cpp): a consumer thread calling get_next/close  *)
(*     and scanner tasks running on a priority thread pool;                *)
(*   - the lake tablet manager (be/src/storage/lake/tablet_manager.cpp):   *)
(*     metadata / txn-log objects, the metacache and publish.              *)
(***************************************************************************)
EXTENDS Integers, Sequences, FiniteSets, TLC

(***************************************************************************)
(* Bounds of the model.                                                    *)
(***************************************************************************)
\* largest number of scan ranges handed to the node (one scanner each)
NumScanRanges == 3
\* a data source returns at most this many chunks before end-of-file
MaxChunks == 1
\* worker threads of the priority thread pool
PoolThreads == 2
\* capacity of the thread pool's task queue
PoolQueueCap == 1

(***************************************************************************)
(* Configuration knobs read by the scan node.                              *)
(***************************************************************************)
max_hdfs_scanner_num == 3
max_hdfs_file_handle == 1
doris_scanner_row_num == 2
chunk_size == 2
\* the process-wide open-file counter: a file-static atomic that nothing in
\* the translation unit ever writes, so it keeps its zero initialisation
connector_scan_node_open_limit == 0

Scanners == 1..NumScanRanges
\* the node's _limit: -1 is "no limit"
LimitChoices == {-1, 1, 3}
\* rows of a chunk filled by DataSource::get_next
RowChoices == {chunk_size}

Min(a, b) == IF a < b THEN a ELSE b

VARIABLES
    \* ---- ConnectorScanNode fields
    scan_ranges,            \* _scan_ranges: how many there are
    limit,                  \* _limit
    status,                 \* _status (guarded by _status_mtx)
    start,                  \* _start
    is_closed,              \* _closed
    mtx,                    \* _mtx: 0 free, -1 held by the consumer, s held by the task of scanner s
    pending_scanners,       \* _pending_scanners (a stack, top first)
    chunk_pool,             \* _chunk_pool: number of chunks in it
    result_chunks,          \* _result_chunks: queue of <<scanner, rows>>
    result_shutdown,        \* _result_chunks was shut down
    running_threads,        \* _running_threads
    closed_scanners,        \* _closed_scanners
    scanner_submit_count,   \* _scanner_submit_count
    pending_token,          \* _pending_token (the node-level slot)
    num_scanners,           \* _num_scanners
    chunks_per_scanner,     \* _chunks_per_scanner
    num_rows_returned,      \* _num_rows_returned
    \* ---- ConnectorScanner fields, per scanner
    sc,
    \* ---- scanner tasks: position and locals of the task owning scanner s
    pc, lst, thr, need,
    prio,                   \* priority of the queued task of scanner s
    deferA,                 \* tasks about to run DeferOp's running_threads decrement
    deferB,                 \* tasks about to run DeferOp's closed-scanners check
    \* ---- the consumer thread
    pcC, cSc, startI,
    \* ---- observations
    lastRet,                \* what the last get_next returned; late: the limit
                            \* had been reached by an earlier call
    rowsOut,                \* rows handed to the consumer so far
    delivered,              \* chunks of scanner s handed to the consumer
    limitHit,               \* get_next has reached the limit
    errOccurred,            \* a data source returned an error
    closeReturned,          \* close() has returned
    pool,                   \* the PriorityThreadPool: its threads and its queue capacity
    config,                 \* the values of the config knobs the node reads at run time
    \* ---- lake TabletManager
    fs_files,               \* the object store: location -> serialized content
    metacache,              \* _metacache: location -> cached object
    faults,                 \* I/O failures the store has produced so far
    pub,                    \* publish(): position, arguments and locals of each caller
    prev,                   \* what the previous publish call of each caller did
    \* ---- calls of single functions
    ap,                     \* apply_txn_log: the arguments and the result
    mt,                     \* a put_tablet_metadata and a get_tablet_metadata in progress
    dr,                     \* a drop_tablet in progress
    np                      \* compute_priority: the argument and the results

nodeVars == <<scan_ranges, limit, status, start, is_closed, mtx, pending_scanners, chunk_pool,
              result_chunks, result_shutdown, running_threads, closed_scanners,
              scanner_submit_count, pending_token, num_scanners, chunks_per_scanner,
              num_rows_returned>>
taskVars == <<sc, pc, lst, thr, need, prio, deferA, deferB>>
consumerVars == <<pcC, cSc, startI>>
obsVars == <<lastRet, rowsOut, delivered, limitHit, errOccurred, closeReturned>>
envVars == <<pool, config>>
scanVars == <<nodeVars, taskVars, consumerVars, obsVars, envVars>>

pubVars == <<fs_files, metacache, faults, pub, prev>>

fnVars == <<ap, mt, dr, np>>

\* what a call of a single function leaves alone
exceptApply == <<scanVars, pubVars, mt, dr, np>>
exceptMeta == <<scanVars, pub, prev, ap, dr, np>>
exceptDrop == <<scanVars, pub, prev, ap, mt, np>>
exceptPriority == <<scanVars, pubVars, ap, mt, dr>>

vars == <<scanVars, pubVars, fnVars>>

(***************************************************************************)
(* compute_priority: the more tasks submitted, the lower the priority.     *)
(***************************************************************************)
\* a table whose steps come one submit late
compute_priority_late(n) ==
    IF n <= 5 THEN 20 ELSE IF n <= 19 THEN 19 ELSE IF n <= 49 THEN 18
    ELSE IF n <= 91 THEN 17 ELSE IF n <= 145 THEN 16 ELSE IF n <= 211 THEN 15
    ELSE IF n <= 289 THEN 14 ELSE IF n <= 379 THEN 13 ELSE IF n <= 481 THEN 12
    ELSE IF n <= 595 THEN 11 ELSE IF n <= 721 THEN 10 ELSE IF n <= 859 THEN 9
    ELSE IF n <= 1009 THEN 8 ELSE IF n <= 1171 THEN 7 ELSE IF n <= 1345 THEN 6
    ELSE IF n <= 1531 THEN 5 ELSE IF n <= 1729 THEN 4 ELSE IF n <= 1939 THEN 3
    ELSE IF n <= 2161 THEN 2 ELSE IF n <= 2395 THEN 1 ELSE 0

compute_priority(n) ==
    IF n < 5 THEN 20 ELSE IF n < 19 THEN 19 ELSE IF n < 49 THEN 18
    ELSE IF n < 91 THEN 17 ELSE IF n < 145 THEN 16 ELSE IF n < 211 THEN 15
    ELSE IF n < 289 THEN 14 ELSE IF n < 379 THEN 13 ELSE IF n < 481 THEN 12
    ELSE IF n < 595 THEN 11 ELSE IF n < 721 THEN 10 ELSE IF n < 859 THEN 9
    ELSE IF n < 1009 THEN 8 ELSE IF n < 1171 THEN 7 ELSE IF n < 1345 THEN 6
    ELSE IF n < 1531 THEN 5 ELSE IF n < 1729 THEN 4 ELSE IF n < 1939 THEN 3
    ELSE IF n < 2161 THEN 2 ELSE IF n < 2395 THEN 1 ELSE 0

(***************************************************************************)
(* The priority thread pool.                                               *)
(***************************************************************************)
\* tasks waiting in the pool's queue
Queued == {s \in Scanners : pc[s] = "queued"}
\* labels at which the task owning a scanner occupies a pool thread
ExecLabels == {"w_start", "yield_read", "yield_loop", "acquire", "loop", "pool",
               "get_next", "push_back", "epilogue", "resubmit_fail", "eof_next",
               "close_pending"}
Executing == Cardinality({s \in Scanners : pc[s] \in ExecLabels}) + deferA + deferB
\* try_offer succeeds iff the queue has room
try_offer == Cardinality(Queued) < pool.queue

(***************************************************************************)
(* Helpers of the node.                                                    *)
(***************************************************************************)
\* an update in which the last writer wins
update_status_last(cur, new) == new
\* _update_status: first non-OK status wins
update_status(cur, new) == IF cur = "OK" THEN new ELSE cur

\* what get_next returns for a node status: end-of-file is reported as OK
ReturnedStatus(st) == IF st = "EndOfFile" THEN "OK" ELSE st

\* reached_limit() of the node after adding a chunk's rows
reached_limit(returned) == limit # -1 /\ returned >= limit

\* a get_next that leaves the last chunk as it came from the queue
untruncated_rows(rows, returned) == rows

\* a DeferOp that shuts the queue down as soon as one scanner is closed
some_scanner_closed == closed_scanners >= 1

\* get_next lines 240-242: the rows the returned chunk keeps when the limit
\* is reached with `returned` rows counted
truncated_rows(rows, returned) ==
    IF reached_limit(returned) THEN rows - (returned - limit) ELSE rows

\* DeferOp line 318: every scanner has been closed
all_scanners_closed == closed_scanners = num_scanners

\* _pop_pending_scanner / _push_pending_scanner on the stack
TopPending == Head(pending_scanners)
PopPending == Tail(pending_scanners)
PushPending(s) == <<s>> \o pending_scanners

\* a release that leaves the scanner's flag set
ReleasedScKept(s) == sc
\* ConnectorScanner::release_pending_token: the scanner's flag goes back to
\* the node slot
ReleasedSc(s) == [sc EXCEPT ![s].pending_token = FALSE]
ReleasedSlot(s) == IF sc[s].pending_token THEN TRUE ELSE pending_token

\* ConnectorScanner::acquire_pending_token (atomic_cas with expect = true):
\* if the node slot is true, swap it with the scanner's flag
AcquiredFlag(s) == IF pending_token THEN TRUE ELSE sc[s].pending_token
\* an exchange that leaves the node slot as it was
AcquiredSlotKept(s) == pending_token
AcquiredSlot(s) == IF pending_token THEN sc[s].pending_token ELSE FALSE

\* _submit_scanner up to a successful offer: the submit count advances unless
\* the scanner keeps its priority, running_threads is incremented, the task
\* is queued with the priority of the old submit count
SubmitAccepted(p) ==
    /\ scanner_submit_count' = scanner_submit_count + (IF sc[p].keep_priority THEN 0 ELSE 1)
    /\ running_threads' = running_threads + 1
    /\ prio' = [prio EXCEPT ![p] = compute_priority(scanner_submit_count)]

\* a refused offer that leaves running_threads incremented
SubmitRefusedNoUndo ==
    /\ running_threads' = running_threads + 1
    /\ UNCHANGED <<scanner_submit_count, prio>>
\* _submit_scanner with a refused non-blocking offer: both counters undone
SubmitRefused ==
    UNCHANGED <<scanner_submit_count, running_threads, prio>>

\* _close_pending_scanners: every pending scanner is closed and counted
ClosePendingSc(scv) ==
    [s \in Scanners |->
        IF \E i \in 1..Len(pending_scanners) : pending_scanners[i] = s
        THEN [scv[s] EXCEPT !.closed = TRUE] ELSE scv[s]]

(***************************************************************************)
(* Initial state: the node after prepare/open, before the first get_next.  *)
(***************************************************************************)
\* set_scan_ranges: a provider that does not accept an empty list gets one
\* placeholder range
set_scan_ranges(ranges, accept_empty_scan_ranges) ==
    IF ~accept_empty_scan_ranges /\ ranges = 0 THEN 1 ELSE ranges

InitNodeWith(r, l) ==
    /\ scan_ranges = r
    /\ limit = l
    /\ status = "OK"
    /\ start = FALSE
    /\ is_closed = FALSE
    /\ mtx = 0
    /\ pending_scanners = <<>>
    /\ chunk_pool = 0
    /\ result_chunks = <<>>
    /\ result_shutdown = FALSE
    /\ running_threads = 0
    /\ closed_scanners = 0
    /\ scanner_submit_count = 0
    /\ pending_token = TRUE
    /\ num_scanners = 0
    /\ chunks_per_scanner = 0
    /\ num_rows_returned = 0
    /\ sc = [s \in Scanners |-> [is_open |-> FALSE, keep_priority |-> FALSE,
                                 pending_token |-> FALSE, num_rows_read |-> 0,
                                 nchunks |-> 0, closed |-> FALSE]]
    /\ pc = [s \in Scanners |-> "idle"]
    /\ lst = [s \in Scanners |-> "OK"]
    /\ thr = [s \in Scanners |-> 0]
    /\ need = [s \in Scanners |-> 0]
    /\ prio = [s \in Scanners |-> 0]
    /\ deferA = 0
    /\ deferB = 0
    /\ pcC = "idle"
    /\ cSc = 0
    /\ startI = 0
    /\ lastRet = [eos |-> FALSE, st |-> "OK", rows |-> 0, late |-> FALSE]
    /\ rowsOut = 0
    /\ delivered = [s \in Scanners |-> 0]
    /\ limitHit = FALSE
    /\ errOccurred = FALSE
    /\ closeReturned = FALSE

\* the pool of the exec env, with all its threads and its whole queue
FullPool == [threads |-> PoolThreads, queue |-> PoolQueueCap]

\* the knobs at the values of the configuration
DefaultConfig == [max_hdfs_scanner_num |-> max_hdfs_scanner_num]

InitScanWith(r, l) == InitNodeWith(r, l) /\ pool = FullPool /\ config = DefaultConfig

\* a node without a limit
InitScan ==
    \E ranges \in 0..NumScanRanges, accept \in BOOLEAN :
        InitScanWith(set_scan_ranges(ranges, accept), -1)

\* a node without a limit on a pool of any number of threads and any queue
\* capacity up to the bounds
InitScanPools ==
    \E ranges \in 0..NumScanRanges, accept \in BOOLEAN,
       threads \in 1..PoolThreads, queue \in 1..PoolQueueCap :
        /\ InitNodeWith(set_scan_ranges(ranges, accept), -1)
        /\ pool = [threads |-> threads, queue |-> queue]
        /\ config = DefaultConfig

\* a node without a limit, with max_hdfs_scanner_num set below the number
\* of scan ranges the node can have
InitScanNarrow ==
    \E ranges \in 0..NumScanRanges, accept \in BOOLEAN,
       n \in 1..(max_hdfs_scanner_num - 1) :
        /\ InitNodeWith(set_scan_ranges(ranges, accept), -1)
        /\ pool = FullPool
        /\ config = [max_hdfs_scanner_num |-> n]

\* a node with a limit
InitScanLimit ==
    \E ranges \in 0..NumScanRanges, accept \in BOOLEAN, l \in LimitChoices \ {-1} :
        InitScanWith(set_scan_ranges(ranges, accept), l)

(***************************************************************************)
(* The consumer thread: get_next.                                          *)
(***************************************************************************)
\* get_next up to the end of its first branch. On the first call with an OK
\* status it enters _start_scan_thread: scanners are created and pushed, the
\* stack is reversed, the chunk pool is filled and _mtx is taken for the
\* submit loop. On a first call with a non-OK status the result queue is shut
\* down.
GetNextCall ==
    /\ pcC = "idle"
    /\ IF ~start /\ status = "OK"
       THEN /\ pending_scanners' = [i \in 1..scan_ranges |-> i]
            /\ num_scanners' = scan_ranges
            /\ chunks_per_scanner' = (doris_scanner_row_num \div chunk_size)
                    + (IF doris_scanner_row_num % chunk_size # 0 THEN 1 ELSE 0)
            /\ chunk_pool' = chunks_per_scanner' * Min(config.max_hdfs_scanner_num, scan_ranges)
            /\ startI' = Min(config.max_hdfs_scanner_num, scan_ranges)
            /\ IF scan_ranges = 0 THEN mtx' = 0 /\ pcC' = "status"
                                  ELSE mtx' = -1 /\ pcC' = "start"
            /\ UNCHANGED result_shutdown
       ELSE /\ result_shutdown' = (result_shutdown \/ ~start)
            /\ pcC' = "status"
            /\ UNCHANGED <<pending_scanners, num_scanners, chunks_per_scanner,
                           chunk_pool, startI, mtx>>
    /\ start' = TRUE
    /\ UNCHANGED <<scan_ranges, limit, status, is_closed, result_chunks,
                   running_threads, closed_scanners, scanner_submit_count,
                   pending_token, num_rows_returned, taskVars, cSc, obsVars>>
    /\ UNCHANGED <<pubVars, fnVars, envVars>>

\* one iteration of _start_scan_thread's submit loop, holding _mtx:
\* _submit_scanner(_pop_pending_scanner(), true); the blocking offer waits
\* for room in the pool's queue
StartSubmit ==
    /\ pcC = "start"
    /\ try_offer
    /\ SubmitAccepted(TopPending)
    /\ pc' = [pc EXCEPT ![TopPending] = "queued"]
    /\ pending_scanners' = PopPending
    /\ startI' = startI - 1
    /\ IF startI = 1 THEN mtx' = 0 /\ pcC' = "status"
                     ELSE UNCHANGED <<mtx, pcC>>
    /\ UNCHANGED <<scan_ranges, limit, status, start, is_closed, chunk_pool, result_chunks,
                   result_shutdown, closed_scanners, pending_token, num_scanners,
                   chunks_per_scanner, num_rows_returned, sc, lst, thr, need,
                   deferA, deferB, cSc, obsVars>>
    /\ UNCHANGED <<pubVars, fnVars, envVars>>

\* get_next lines 213-219: a non-OK node status ends the call with eos
GetNextStatus ==
    /\ pcC = "status"
    /\ IF status # "OK"
       THEN /\ lastRet' = [eos |-> TRUE, st |-> ReturnedStatus(status), rows |-> 0,
                            late |-> limitHit]
            /\ pcC' = "idle"
       ELSE /\ pcC' = "admit"
            /\ UNCHANGED lastRet
    /\ UNCHANGED <<nodeVars, taskVars, cSc, startI, rowsOut, delivered, limitHit,
                   errOccurred, closeReturned>>
    /\ UNCHANGED <<pubVars, fnVars, envVars>>

\* get_next lines 221-233, the part under _mtx: pop one pending scanner if
\* there is room for another running scanner and the pool has enough chunks
GetNextAdmit ==
    /\ pcC = "admit"
    /\ mtx = 0
    /\ LET num_pending == Len(pending_scanners)
           num_running == num_scanners - num_pending - closed_scanners
       IN IF /\ num_pending > 0
             /\ num_running < config.max_hdfs_scanner_num
             /\ chunk_pool >= (num_running + 1) * chunks_per_scanner
          THEN /\ cSc' = TopPending
               /\ pending_scanners' = PopPending
               /\ pcC' = "submit"
          ELSE /\ pcC' = "get"
               /\ UNCHANGED <<cSc, pending_scanners>>
    /\ UNCHANGED <<scan_ranges, limit, status, start, is_closed, mtx, chunk_pool, result_chunks,
                   result_shutdown, running_threads, closed_scanners,
                   scanner_submit_count, pending_token, num_scanners,
                   chunks_per_scanner, num_rows_returned, taskVars, startI, obsVars>>
    /\ UNCHANGED <<pubVars, fnVars, envVars>>

\* get_next line 230: _submit_scanner(scanner, true) up to try_offer
GetNextSubmit ==
    /\ pcC = "submit"
    /\ SubmitAccepted(cSc)
    /\ IF try_offer
       THEN /\ pc' = [pc EXCEPT ![cSc] = "queued"]
            /\ cSc' = 0
            /\ pcC' = "get"
       ELSE /\ pcC' = "offer"
            /\ UNCHANGED <<pc, cSc>>
    /\ UNCHANGED <<scan_ranges, limit, status, start, is_closed, mtx, pending_scanners, chunk_pool,
                   result_chunks, result_shutdown, closed_scanners, pending_token,
                   num_scanners, chunks_per_scanner, num_rows_returned, sc, lst, thr,
                   need, deferA, deferB, startI, obsVars>>
    /\ UNCHANGED <<pubVars, fnVars, envVars>>

\* the blocking thread_pool->offer of _submit_scanner: waits for room
GetNextOffer ==
    /\ pcC = "offer"
    /\ try_offer
    /\ pc' = [pc EXCEPT ![cSc] = "queued"]
    /\ cSc' = 0
    /\ pcC' = "get"
    /\ UNCHANGED <<nodeVars, sc, lst, thr, need, prio, deferA, deferB, startI, obsVars>>
    /\ UNCHANGED <<pubVars, fnVars, envVars>>

\* get_next lines 235-250: blocking_get returned a chunk; the pool is topped
\* up under _mtx, the rows are counted and the limit is applied
GetNextChunk ==
    /\ pcC = "get"
    /\ result_chunks # <<>>
    /\ mtx = 0
    /\ LET s == Head(result_chunks)[1]
           rows == Head(result_chunks)[2]
           returned == num_rows_returned + rows
           out == truncated_rows(rows, returned)
       IN /\ result_chunks' = Tail(result_chunks)
          /\ chunk_pool' = chunk_pool + 1
          /\ num_rows_returned' = returned
          /\ status' = IF reached_limit(returned)
                       THEN update_status(status, "EndOfFile") ELSE status
          /\ result_shutdown' = (result_shutdown \/ reached_limit(returned))
          /\ limitHit' = (limitHit \/ reached_limit(returned))
          /\ lastRet' = [eos |-> FALSE, st |-> "OK", rows |-> out, late |-> limitHit]
          /\ rowsOut' = rowsOut + out
          /\ delivered' = [delivered EXCEPT ![s] = @ + 1]
    /\ pcC' = "idle"
    /\ UNCHANGED <<scan_ranges, limit, start, is_closed, mtx, pending_scanners, running_threads,
                   closed_scanners, scanner_submit_count, pending_token, num_scanners,
                   chunks_per_scanner, taskVars, cSc, startI, errOccurred, closeReturned>>
    /\ UNCHANGED <<pubVars, fnVars, envVars>>

\* get_next lines 252-255: blocking_get returned false (queue shut down and
\* drained)
GetNextEos ==
    /\ pcC = "get"
    /\ result_chunks = <<>>
    /\ result_shutdown
    /\ status' = update_status(status, "EndOfFile")
    /\ lastRet' = [eos |-> TRUE, st |-> ReturnedStatus(status'), rows |-> 0,
                    late |-> limitHit]
    /\ pcC' = "idle"
    /\ UNCHANGED <<scan_ranges, limit, start, is_closed, mtx, pending_scanners, chunk_pool,
                   result_chunks, result_shutdown, running_threads, closed_scanners,
                   scanner_submit_count, pending_token, num_scanners,
                   chunks_per_scanner, num_rows_returned, taskVars, cSc, startI,
                   rowsOut, delivered, limitHit, errOccurred, closeReturned>>
    /\ UNCHANGED <<pubVars, fnVars, envVars>>

(***************************************************************************)
(* The consumer thread: close.                                             *)
(***************************************************************************)
\* close lines 496-501: mark closed, install Cancelled, shut the queue down
Close ==
    /\ pcC = "idle"
    /\ ~is_closed
    /\ is_closed' = TRUE
    /\ status' = update_status(status, "Cancelled")
    /\ result_shutdown' = TRUE
    /\ pcC' = "close_wait"
    /\ UNCHANGED <<scan_ranges, limit, start, mtx, pending_scanners, chunk_pool, result_chunks,
                   running_threads, closed_scanners, scanner_submit_count,
                   pending_token, num_scanners, chunks_per_scanner,
                   num_rows_returned, taskVars, cSc, startI, obsVars>>
    /\ UNCHANGED <<pubVars, fnVars, envVars>>

\* close lines 502-508: once running_threads is 0, close the pending scanners
CloseWait ==
    /\ pcC = "close_wait"
    /\ running_threads = 0
    /\ mtx = 0
    /\ sc' = ClosePendingSc(sc)
    /\ closed_scanners' = closed_scanners + Len(pending_scanners)
    /\ pending_scanners' = <<>>
    /\ closeReturned' = TRUE
    /\ pcC' = "idle"
    /\ UNCHANGED <<scan_ranges, limit, status, start, is_closed, mtx, chunk_pool, result_chunks,
                   result_shutdown, running_threads, scanner_submit_count,
                   pending_token, num_scanners, chunks_per_scanner,
                   num_rows_returned, pc, lst, thr, need, prio, deferA, deferB,
                   cSc, startI, lastRet, rowsOut, delivered, limitHit, errOccurred>>
    /\ UNCHANGED <<pubVars, fnVars, envVars>>

(***************************************************************************)
(* Scanner tasks: _scanner_thread, run by a pool thread.                   *)
(***************************************************************************)
\* a free pool thread takes the queued task of highest priority
TaskStart(s) ==
    /\ pc[s] = "queued"
    /\ Executing < pool.threads
    /\ \A q \in Queued : prio[q] <= prio[s]
    /\ pc' = [pc EXCEPT ![s] = "w_start"]
    /\ prio' = [prio EXCEPT ![s] = 0]
    /\ UNCHANGED <<nodeVars, sc, lst, thr, need, deferA, deferB, consumerVars, obsVars>>
    /\ UNCHANGED <<pubVars, fnVars, envVars>>

\* the task lets go of the scanner: its locals are dead
DropLocals(s) ==
    /\ lst' = [lst EXCEPT ![s] = "OK"]
    /\ thr' = [thr EXCEPT ![s] = 0]
KeepLocals == UNCHANGED <<lst, thr>>

\* _release_scanner up to _close_pending_scanners: release the token, close
\* the data source, count the scanner as closed
ReleaseScanner(s) ==
    /\ sc' = [ReleasedSc(s) EXCEPT ![s].closed = TRUE]
    /\ pending_token' = ReleasedSlot(s)
    /\ closed_scanners' = closed_scanners + 1

\* lines 323-336: fast failure on a non-OK node status; otherwise go on to
\* the token holder's wake-up of peers, or to the token acquisition
TaskBegin(s) ==
    /\ pc[s] = "w_start"
    /\ IF status # "OK"
       THEN /\ ReleaseScanner(s)
            /\ pc' = [pc EXCEPT ![s] = "close_pending"]
       ELSE /\ pc' = [pc EXCEPT ![s] = IF sc[s].pending_token THEN "yield_read"
                                                             ELSE "acquire"]
            /\ UNCHANGED <<sc, pending_token, closed_scanners>>
    /\ lst' = [lst EXCEPT ![s] = "OK"]
    /\ UNCHANGED <<scan_ranges, limit, status, start, is_closed, mtx, pending_scanners, chunk_pool,
                   result_chunks, result_shutdown, running_threads,
                   scanner_submit_count, num_scanners, chunks_per_scanner,
                   num_rows_returned, thr, need, prio, deferA, deferB,
                   consumerVars, obsVars>>
    /\ UNCHANGED <<pubVars, fnVars, envVars>>

\* lines 337-341: the token holder computes how many peers to wake
TaskYieldRead(s) ==
    /\ pc[s] = "yield_read"
    /\ LET concurrency == Min(config.max_hdfs_scanner_num, num_scanners)
           need_put == concurrency - running_threads
           left_resource == max_hdfs_file_handle - connector_scan_node_open_limit
       IN IF left_resource > 0
          THEN /\ need' = [need EXCEPT ![s] = Min(left_resource, need_put)]
               /\ pc' = [pc EXCEPT ![s] = "yield_loop"]
          ELSE /\ pc' = [pc EXCEPT ![s] = "acquire"]
               /\ UNCHANGED need
    /\ UNCHANGED <<nodeVars, sc, lst, thr, prio, deferA, deferB, consumerVars, obsVars>>
    /\ UNCHANGED <<pubVars, fnVars, envVars>>

\* lines 342-347, one iteration under _mtx: pop a pending scanner and submit
\* it without blocking; when the offer is refused the loop is left and the
\* popped scanner is neither pushed back nor closed
TaskYieldLoop(s) ==
    /\ pc[s] = "yield_loop"
    /\ mtx \in {0, s}
    /\ IF need[s] > 0 /\ pending_scanners # <<>>
       THEN /\ pending_scanners' = PopPending
            /\ IF try_offer
               THEN /\ SubmitAccepted(TopPending)
                    /\ pc' = [pc EXCEPT ![TopPending] = "queued"]
                    /\ need' = [need EXCEPT ![s] = @ - 1]
                    /\ mtx' = s
               ELSE /\ SubmitRefused
                    /\ pc' = [pc EXCEPT ![TopPending] = "lost", ![s] = "acquire"]
                    /\ need' = [need EXCEPT ![s] = 0]
                    /\ mtx' = 0
       ELSE /\ pc' = [pc EXCEPT ![s] = "acquire"]
            /\ need' = [need EXCEPT ![s] = 0]
            /\ mtx' = 0
            /\ SubmitRefused
            /\ UNCHANGED pending_scanners
    /\ UNCHANGED <<scan_ranges, limit, status, start, is_closed, chunk_pool, result_chunks,
                   result_shutdown, closed_scanners, pending_token, num_scanners,
                   chunks_per_scanner, num_rows_returned, sc, lst, thr, deferA,
                   deferB, consumerVars, obsVars>>
    /\ UNCHANGED <<pubVars, fnVars, envVars>>

\* the outcomes of ConnectorScanner::open: an open scanner returns OK at
\* once, otherwise the data source opens or fails
OpenOutcomes(s) == IF sc[s].is_open THEN {"OK"} ELSE {"OK", "IOError"}

\* lines 351-370: acquire the token if not held, the admission check against
\* the open-file budget, then open and the raw-rows threshold
TaskAcquireOpen(s) ==
    /\ pc[s] = "acquire"
    /\ pending_token' = IF sc[s].pending_token THEN pending_token ELSE AcquiredSlot(s)
    /\ LET token == IF sc[s].pending_token THEN TRUE ELSE AcquiredFlag(s)
       IN IF /\ ~sc[s].is_open
             /\ connector_scan_node_open_limit > max_hdfs_file_handle
             /\ ~token
          THEN \* pushed back to the pending stack under _mtx
               /\ mtx = 0
               /\ pending_scanners' = PushPending(s)
               /\ pc' = [pc EXCEPT ![s] = "idle"]
               /\ deferA' = deferA + 1
               /\ DropLocals(s)
               /\ UNCHANGED <<sc, errOccurred>>
          ELSE \E st \in OpenOutcomes(s) :
               /\ sc' = [sc EXCEPT ![s].pending_token = token,
                                   ![s].is_open = (st = "OK"),
                                   ![s].keep_priority = FALSE]
               /\ lst' = [lst EXCEPT ![s] = st]
               /\ thr' = [thr EXCEPT ![s] = sc[s].num_rows_read + doris_scanner_row_num]
               /\ pc' = [pc EXCEPT ![s] = IF st = "OK" THEN "loop" ELSE "epilogue"]
               /\ errOccurred' = (errOccurred \/ st # "OK")
               /\ UNCHANGED <<pending_scanners, deferA>>
    /\ UNCHANGED <<scan_ranges, limit, status, start, is_closed, mtx, chunk_pool, result_chunks,
                   result_shutdown, running_threads, closed_scanners,
                   scanner_submit_count, num_scanners, chunks_per_scanner,
                   num_rows_returned, need, prio, deferB, consumerVars, lastRet,
                   rowsOut, delivered, limitHit, closeReturned>>
    /\ UNCHANGED <<pubVars, fnVars, envVars>>

\* lines 374-378: the produce loop's check of the node status
TaskLoopStatus(s) ==
    /\ pc[s] = "loop"
    /\ pc' = [pc EXCEPT ![s] = IF status # "OK" THEN "epilogue" ELSE "pool"]
    /\ UNCHANGED <<nodeVars, sc, lst, thr, need, prio, deferA, deferB,
                   consumerVars, obsVars>>
    /\ UNCHANGED <<pubVars, fnVars, envVars>>

\* lines 380-390 under _mtx: with an empty chunk pool the scanner keeps its
\* priority, gives the token back, is pushed to the pending stack and the
\* task lets go of it; otherwise a chunk is popped
TaskPoolPop(s) ==
    /\ pc[s] = "pool"
    /\ mtx = 0
    /\ IF chunk_pool = 0
       THEN /\ sc' = [ReleasedSc(s) EXCEPT ![s].keep_priority = TRUE]
            /\ pending_token' = ReleasedSlot(s)
            /\ pending_scanners' = PushPending(s)
            /\ pc' = [pc EXCEPT ![s] = "idle"]
            /\ deferA' = deferA + 1
            /\ DropLocals(s)
            /\ UNCHANGED chunk_pool
       ELSE /\ chunk_pool' = chunk_pool - 1
            /\ pc' = [pc EXCEPT ![s] = "get_next"]
            /\ KeepLocals
            /\ UNCHANGED <<sc, pending_token, pending_scanners, deferA>>
    /\ UNCHANGED <<scan_ranges, limit, status, start, is_closed, mtx, result_chunks,
                   result_shutdown, running_threads, closed_scanners,
                   scanner_submit_count, num_scanners, chunks_per_scanner,
                   num_rows_returned, need, prio, deferB,
                   consumerVars, obsVars>>
    /\ UNCHANGED <<pubVars, fnVars, envVars>>

\* what DataSource::get_next may return: a chunk of some rows while the data
\* source has chunks left, end-of-file, or an error
DataSourceOutcomes(s) ==
    {"EndOfFile", "IOError"} \cup
    (IF sc[s].nchunks < MaxChunks THEN {"OK"} ELSE {})

\* lines 392-411 with a chunk from the data source: put it into the result
\* queue (Aborted if the queue is shut down), then the limit check and the
\* raw-rows threshold
TaskGetNextOk(s) ==
    /\ pc[s] = "get_next"
    /\ "OK" \in DataSourceOutcomes(s)
    /\ \E rows \in RowChoices :
        LET read == sc[s].num_rows_read + rows
        IN /\ sc' = [sc EXCEPT ![s].num_rows_read = read, ![s].nchunks = @ + 1]
           /\ IF result_shutdown
              THEN /\ lst' = [lst EXCEPT ![s] = "Aborted"]
                   /\ pc' = [pc EXCEPT ![s] = "epilogue"]
                   /\ UNCHANGED result_chunks
              ELSE /\ result_chunks' = Append(result_chunks, <<s, rows>>)
                   /\ IF limit # -1 /\ read >= limit
                      THEN /\ lst' = [lst EXCEPT ![s] = "EndOfFile"]
                           /\ pc' = [pc EXCEPT ![s] = "epilogue"]
                      ELSE IF read >= thr[s]
                      THEN /\ lst' = [lst EXCEPT ![s] = "resubmit"]
                           /\ pc' = [pc EXCEPT ![s] = "epilogue"]
                      ELSE /\ pc' = [pc EXCEPT ![s] = "loop"]
                           /\ UNCHANGED lst
    /\ UNCHANGED <<scan_ranges, limit, status, start, is_closed, mtx, pending_scanners, chunk_pool,
                   result_shutdown, running_threads, closed_scanners,
                   scanner_submit_count, pending_token, num_scanners,
                   chunks_per_scanner, num_rows_returned, thr, need, prio, deferA,
                   deferB, consumerVars, obsVars>>
    /\ UNCHANGED <<pubVars, fnVars, envVars>>

\* lines 392-397 with a non-OK status from the data source (end-of-file or
\* an error): the chunk has to go back to the pool
TaskGetNextFail(s) ==
    /\ pc[s] = "get_next"
    /\ \E st \in DataSourceOutcomes(s) \ {"OK"} :
        /\ lst' = [lst EXCEPT ![s] = st]
        /\ errOccurred' = (errOccurred \/ st # "EndOfFile")
    /\ pc' = [pc EXCEPT ![s] = "push_back"]
    /\ UNCHANGED <<nodeVars, sc, thr, need, prio, deferA, deferB, consumerVars,
                   lastRet, rowsOut, delivered, limitHit, closeReturned>>
    /\ UNCHANGED <<pubVars, fnVars, envVars>>

\* lines 394-396: the chunk is pushed back under _mtx
TaskPushBack(s) ==
    /\ pc[s] = "push_back"
    /\ mtx = 0
    /\ chunk_pool' = chunk_pool + 1
    /\ pc' = [pc EXCEPT ![s] = "epilogue"]
    /\ UNCHANGED <<scan_ranges, limit, status, start, is_closed, mtx, pending_scanners,
                   result_chunks, result_shutdown, running_threads, closed_scanners,
                   scanner_submit_count, pending_token, num_scanners,
                   chunks_per_scanner, num_rows_returned, sc, lst, thr, need, prio,
                   deferA, deferB, consumerVars, obsVars>>
    /\ UNCHANGED <<pubVars, fnVars, envVars>>

\* lines 414-443, the epilogue up to its first lock: with an OK node status
\* a resubmit is offered without blocking, an end-of-file scanner is closed
\* and counted, any other status is published and the scanner released;
\* with a non-OK node status the scanner is released
TaskEpilogue(s) ==
    /\ pc[s] = "epilogue"
    /\ IF status = "OK" /\ lst[s] = "resubmit"
       THEN /\ IF try_offer
               THEN /\ SubmitAccepted(s)
                    /\ pc' = [pc EXCEPT ![s] = "queued"]
                    /\ deferA' = deferA + 1
                    /\ DropLocals(s)
               ELSE /\ SubmitRefused
                    /\ pc' = [pc EXCEPT ![s] = "resubmit_fail"]
                    /\ KeepLocals
                    /\ UNCHANGED deferA
            /\ UNCHANGED <<status, sc, pending_token, closed_scanners>>
       ELSE IF status = "OK" /\ lst[s] = "OK"
       THEN \* DCHECK(scanner == nullptr): nothing is done with the scanner
            /\ pc' = [pc EXCEPT ![s] = "lost"]
            /\ deferA' = deferA + 1
            /\ DropLocals(s)
            /\ SubmitRefused
            /\ UNCHANGED <<status, sc, pending_token, closed_scanners>>
       ELSE IF status = "OK" /\ lst[s] = "EndOfFile"
       THEN /\ ReleaseScanner(s)
            /\ pc' = [pc EXCEPT ![s] = "eof_next"]
            /\ SubmitRefused
            /\ KeepLocals
            /\ UNCHANGED <<status, deferA>>
       ELSE /\ status' = update_status(status, lst[s])
            /\ ReleaseScanner(s)
            /\ pc' = [pc EXCEPT ![s] = "close_pending"]
            /\ SubmitRefused
            /\ KeepLocals
            /\ UNCHANGED deferA
    /\ UNCHANGED <<scan_ranges, limit, start, is_closed, mtx, pending_scanners, chunk_pool,
                   result_chunks, result_shutdown, num_scanners, chunks_per_scanner,
                   num_rows_returned, need, deferB, consumerVars, obsVars>>
    /\ UNCHANGED <<pubVars, fnVars, envVars>>

\* lines 417-421: the refused resubmit gives the token back and pushes the
\* scanner to the pending stack, under _mtx
TaskResubmitFail(s) ==
    /\ pc[s] = "resubmit_fail"
    /\ mtx = 0
    /\ sc' = ReleasedSc(s)
    /\ pending_token' = ReleasedSlot(s)
    /\ pending_scanners' = PushPending(s)
    /\ pc' = [pc EXCEPT ![s] = "idle"]
    /\ deferA' = deferA + 1
    /\ DropLocals(s)
    /\ UNCHANGED <<scan_ranges, limit, status, start, is_closed, mtx, chunk_pool, result_chunks,
                   result_shutdown, running_threads, closed_scanners,
                   scanner_submit_count, num_scanners, chunks_per_scanner,
                   num_rows_returned, need, prio, deferB, consumerVars,
                   obsVars>>
    /\ UNCHANGED <<pubVars, fnVars, envVars>>

\* lines 428-432 under _mtx: after an end-of-file one pending scanner is
\* popped and offered without blocking; a refused one is pushed back
TaskEofNext(s) ==
    /\ pc[s] = "eof_next"
    /\ mtx = 0
    /\ IF pending_scanners # <<>> /\ try_offer
       THEN /\ SubmitAccepted(TopPending)
            /\ pc' = [pc EXCEPT ![TopPending] = "queued", ![s] = "idle"]
            /\ pending_scanners' = PopPending
       ELSE /\ SubmitRefused
            /\ pc' = [pc EXCEPT ![s] = "idle"]
            /\ UNCHANGED pending_scanners
    /\ deferA' = deferA + 1
    /\ DropLocals(s)
    /\ UNCHANGED <<scan_ranges, limit, status, start, is_closed, mtx, chunk_pool, result_chunks,
                   result_shutdown, closed_scanners, pending_token, num_scanners,
                   chunks_per_scanner, num_rows_returned, sc, need, deferB,
                   consumerVars, obsVars>>
    /\ UNCHANGED <<pubVars, fnVars, envVars>>

\* _close_pending_scanners at the end of _release_scanner, under _mtx
TaskClosePending(s) ==
    /\ pc[s] = "close_pending"
    /\ mtx = 0
    /\ sc' = ClosePendingSc(sc)
    /\ closed_scanners' = closed_scanners + Len(pending_scanners)
    /\ pending_scanners' = <<>>
    /\ pc' = [pc EXCEPT ![s] = "idle"]
    /\ deferA' = deferA + 1
    /\ DropLocals(s)
    /\ UNCHANGED <<scan_ranges, limit, status, start, is_closed, mtx, chunk_pool, result_chunks,
                   result_shutdown, running_threads, scanner_submit_count,
                   pending_token, num_scanners, chunks_per_scanner, num_rows_returned,
                   need, prio, deferB, consumerVars, obsVars>>
    /\ UNCHANGED <<pubVars, fnVars, envVars>>

\* DeferOp line 316: the exiting task decrements running_threads
DeferDecrement ==
    /\ deferA > 0
    /\ running_threads' = running_threads - 1
    /\ deferA' = deferA - 1
    /\ deferB' = deferB + 1
    /\ UNCHANGED <<scan_ranges, limit, status, start, is_closed, mtx, pending_scanners, chunk_pool,
                   result_chunks, result_shutdown, closed_scanners,
                   scanner_submit_count, pending_token, num_scanners,
                   chunks_per_scanner, num_rows_returned, sc, pc, lst, thr, need,
                   prio, consumerVars, obsVars>>
    /\ UNCHANGED <<pubVars, fnVars, envVars>>

\* DeferOp lines 318-320: shut the result queue down once every scanner is
\* closed; the pool thread is free again
DeferShutdown ==
    /\ deferB > 0
    /\ result_shutdown' = (result_shutdown \/ all_scanners_closed)
    /\ deferB' = deferB - 1
    /\ UNCHANGED <<scan_ranges, limit, status, start, is_closed, mtx, pending_scanners, chunk_pool,
                   result_chunks, running_threads, closed_scanners,
                   scanner_submit_count, pending_token, num_scanners,
                   chunks_per_scanner, num_rows_returned, sc, pc, lst, thr, need,
                   prio, deferA, consumerVars, obsVars>>
    /\ UNCHANGED <<pubVars, fnVars, envVars>>

(***************************************************************************)
(* The scan node: the consumer thread and the pool threads.                *)
(***************************************************************************)
ScanTask(s) ==
    \/ TaskStart(s)
    \/ TaskBegin(s)
    \/ TaskYieldRead(s)
    \/ TaskYieldLoop(s)
    \/ TaskAcquireOpen(s)
    \/ TaskLoopStatus(s)
    \/ TaskPoolPop(s)
    \/ TaskGetNextOk(s)
    \/ TaskGetNextFail(s)
    \/ TaskPushBack(s)
    \/ TaskEpilogue(s)
    \/ TaskResubmitFail(s)
    \/ TaskEofNext(s)
    \/ TaskClosePending(s)

ScanNext ==
    \/ GetNextCall
    \/ StartSubmit
    \/ GetNextStatus
    \/ GetNextAdmit
    \/ GetNextSubmit
    \/ GetNextOffer
    \/ GetNextChunk
    \/ GetNextEos
    \/ Close
    \/ CloseWait
    \/ DeferDecrement
    \/ DeferShutdown
    \/ \E s \in Scanners : ScanTask(s)

(***************************************************************************)
(* Lake TabletManager: the object store, the metacache, txn-log apply and  *)
(* publish.                                                                *)
(***************************************************************************)
\* versions a tablet can reach, txn ids, and the I/O failures of one run
MaxVersion == 2
NumTxns == 2
MaxFaults == 1

Tablets == {1}
Versions == 1..MaxVersion
TxnIds == 1..NumTxns
Callers == {1}

\* tablet_metadata_location / txn_log_location: one object per (tablet,
\* version) and per (tablet, txn)
tablet_metadata_location(tablet_id, version) == <<"tbl", tablet_id, version>>
txn_log_location(tablet_id, txn_id) == <<"txn", tablet_id, txn_id>>

Locations ==
    {tablet_metadata_location(t, v) : t \in Tablets, v \in Versions}
        \cup {txn_log_location(t, x) : t \in Tablets, x \in TxnIds}

\* ---- messages
NoRowset == [id |-> 0, segments_size |-> 0, num_rows |-> 0]

\* the metadata create_tablet writes: version 1, next_rowset_id 1, no rowsets
create_tablet(tablet_id) ==
    [id |-> tablet_id, version |-> 1, next_rowset_id |-> 1, rowsets |-> <<>>]

NoOpWrite == [has_rowset |-> FALSE, rowset |-> NoRowset]
NoOpCompaction ==
    [input_rowsets |-> <<>>, has_output_rowset |-> FALSE, output_rowset |-> NoRowset]

WriteLog(tablet_id, txn_id, segs, rows) ==
    [tablet_id |-> tablet_id, txn_id |-> txn_id,
     has_op_write |-> TRUE,
     op_write |-> [has_rowset |-> TRUE,
                   rowset |-> [id |-> 0, segments_size |-> segs, num_rows |-> rows]],
     has_op_compaction |-> FALSE, op_compaction |-> NoOpCompaction,
     has_op_schema_change |-> FALSE]

CompactionLog(tablet_id, txn_id, inputs, segs, rows) ==
    [tablet_id |-> tablet_id, txn_id |-> txn_id,
     has_op_write |-> FALSE, op_write |-> NoOpWrite,
     has_op_compaction |-> TRUE,
     op_compaction |-> [input_rowsets |-> inputs, has_output_rowset |-> TRUE,
                        output_rowset |-> [id |-> 0, segments_size |-> segs,
                                           num_rows |-> rows]],
     has_op_schema_change |-> FALSE]

SchemaChangeLog(tablet_id, txn_id) ==
    [tablet_id |-> tablet_id, txn_id |-> txn_id,
     has_op_write |-> FALSE, op_write |-> NoOpWrite,
     has_op_compaction |-> FALSE, op_compaction |-> NoOpCompaction,
     has_op_schema_change |-> TRUE]

\* ---- SerializeAsString / ParseFromArray: a message is stored as a tagged
\* tuple of its fields, rowsets as triples
NoFile == <<>>

SerializeRowset(r) == <<r.id, r.segments_size, r.num_rows>>
ParseRowset(b) == [id |-> b[1], segments_size |-> b[2], num_rows |-> b[3]]

SerializeMetadata(m) ==
    <<"TabletMetadataPB", m.id, m.version, m.next_rowset_id,
      [k \in 1..Len(m.rowsets) |-> SerializeRowset(m.rowsets[k])]>>

ParseMetadata(b) ==
    IF Len(b) = 5 /\ b[1] = "TabletMetadataPB"
    THEN [parsed |-> TRUE,
          val |-> [id |-> b[2], version |-> b[3], next_rowset_id |-> b[4],
                   rowsets |-> [k \in 1..Len(b[5]) |-> ParseRowset(b[5][k])]]]
    ELSE [parsed |-> FALSE, val |-> create_tablet(0)]

SerializeTxnLog(g) ==
    <<"TxnLogPB", g.tablet_id, g.txn_id,
      g.has_op_write, g.op_write.has_rowset, SerializeRowset(g.op_write.rowset),
      g.has_op_compaction, g.op_compaction.input_rowsets,
      g.op_compaction.has_output_rowset, SerializeRowset(g.op_compaction.output_rowset),
      g.has_op_schema_change>>

ParseTxnLog(b) ==
    IF Len(b) = 11 /\ b[1] = "TxnLogPB"
    THEN [parsed |-> TRUE,
          val |-> [tablet_id |-> b[2], txn_id |-> b[3],
                   has_op_write |-> b[4],
                   op_write |-> [has_rowset |-> b[5], rowset |-> ParseRowset(b[6])],
                   has_op_compaction |-> b[7],
                   op_compaction |-> [input_rowsets |-> b[8],
                                      has_output_rowset |-> b[9],
                                      output_rowset |-> ParseRowset(b[10])],
                   has_op_schema_change |-> b[11]]]
    ELSE [parsed |-> FALSE, val |-> SchemaChangeLog(0, 0)]

\* ---- apply_write_log
\* an apply that advances next_rowset_id by one per rowset, whatever the
\* number of its segments
apply_write_log_one_id_per_rowset(op_write, metadata) ==
    IF op_write.has_rowset /\ op_write.rowset.num_rows > 0
    THEN [st |-> "OK",
          md |-> [metadata EXCEPT
                    !.rowsets = Append(@, [op_write.rowset EXCEPT
                                             !.id = metadata.next_rowset_id]),
                    !.next_rowset_id = @ + 1]]
    ELSE [st |-> "OK", md |-> metadata]

apply_write_log(op_write, metadata) ==
    IF op_write.has_rowset /\ op_write.rowset.num_rows > 0
    THEN [st |-> "OK",
          md |-> [metadata EXCEPT
                    !.rowsets = Append(@, [op_write.rowset EXCEPT
                                             !.id = metadata.next_rowset_id]),
                    !.next_rowset_id = @ + op_write.rowset.segments_size]]
    ELSE [st |-> "OK", md |-> metadata]

\* ---- apply_compaction_log
\* std::find_if(from, end, Finder{id}): the first position >= from holding
\* id, or the end position Len + 1
find_if(rowsets, from, id) ==
    LET hits == {k \in from..Len(rowsets) : rowsets[k].id = id}
    IN  IF hits = {} THEN Len(rowsets) + 1
        ELSE CHOOSE k \in hits : \A j \in hits : k <= j

\* op_compaction.input_rowsets(i), i counted from 0. The accessor does not
\* check the index: past the end of the list it yields whatever the memory
\* holds, here garbage[i].
input_rowsets(op_compaction, i, garbage) ==
    IF i < Len(op_compaction.input_rowsets)
    THEN op_compaction.input_rowsets[i + 1]
    ELSE garbage[i]

\* the values an unchecked read can yield: an id no rowset has, or the id of
\* some rowset of the metadata
GarbageIds(metadata) ==
    {0, metadata.next_rowset_id}
        \cup {metadata.rowsets[k].id : k \in 1..Len(metadata.rowsets)}

\* one value for every index the safety-check loop can read past the list
GarbageChoices(g, metadata) ==
    IF g.has_op_compaction /\ g.op_compaction.input_rowsets # <<>>
    THEN [Len(g.op_compaction.input_rowsets)
              ..(Len(metadata.rowsets) - (IF g.has_op_write THEN 0 ELSE 1))
              -> GarbageIds(metadata)]
    ELSE {<<>>}

\* the safety-check loop of apply_compaction_log from index i on, with
\* pre_input_pos = pre. The index runs up to rowsets_size(), whatever the
\* length of the input list. Yields the last input position, 0 on a miss or
\* a non-adjacent position.
RECURSIVE check_inputs(_, _, _, _, _)
check_inputs(op_compaction, rowsets, i, pre, garbage) ==
    IF i >= Len(rowsets) THEN pre
    ELSE LET it == find_if(rowsets, pre + 1, input_rowsets(op_compaction, i, garbage))
         IN  IF it = Len(rowsets) + 1 THEN 0
             ELSE IF it # pre + 1 THEN 0
             ELSE check_inputs(op_compaction, rowsets, i + 1, it, garbage)

apply_compaction_log(op_compaction, metadata, garbage) ==
    IF op_compaction.input_rowsets = <<>> THEN [st |-> "OK", md |-> metadata]
    ELSE
    LET rowsets == metadata.rowsets
        first_input_pos == find_if(rowsets, 1, op_compaction.input_rowsets[1])
    IN  IF first_input_pos = Len(rowsets) + 1
        THEN [st |-> "InternalError", md |-> metadata]
        ELSE
        LET pre_input_pos == check_inputs(op_compaction, rowsets, 1, first_input_pos, garbage)
            before == SubSeq(rowsets, 1, first_input_pos - 1)
            after == SubSeq(rowsets, pre_input_pos + 1, Len(rowsets))
        IN  IF pre_input_pos = 0
            THEN [st |-> "InternalError", md |-> metadata]
            ELSE IF op_compaction.has_output_rowset
                    /\ op_compaction.output_rowset.num_rows > 0
            THEN [st |-> "OK",
                  md |-> [metadata EXCEPT
                            !.rowsets = before
                                \o <<[op_compaction.output_rowset EXCEPT
                                        !.id = metadata.next_rowset_id]>>
                                \o after,
                            !.next_rowset_id =
                                @ + op_compaction.output_rowset.segments_size]]
            ELSE [st |-> "OK", md |-> [metadata EXCEPT !.rowsets = before \o after]]

\* ---- apply_txn_log: the write, then the compaction, then the schema change
apply_txn_log(g, metadata, garbage) ==
    LET w == IF g.has_op_write THEN apply_write_log(g.op_write, metadata)
             ELSE [st |-> "OK", md |-> metadata]
        c == IF w.st = "OK" /\ g.has_op_compaction
             THEN apply_compaction_log(g.op_compaction, w.md, garbage)
             ELSE w
    IN  IF c.st = "OK" /\ g.has_op_schema_change
        THEN [st |-> "NotSupported", md |-> c.md]
        ELSE c

\* ---- the metacache
NoEntry == [kind |-> "none"]
MetadataEntry(m) == [kind |-> "metadata", val |-> m]
TxnLogEntry(g) == [kind |-> "txnlog", val |-> g]

\* a delete that leaves the cache entry where it is
keep_metacache(cache, key) == cache

erase_metacache(cache, key) == [cache EXCEPT ![key] = NoEntry]
fill_metacache(cache, key, value) == [cache EXCEPT ![key] = value]

\* ---- the filesystem
CanFail == faults < MaxFaults

\* new_random_access_file, get_size and read_at_fully on one object: the
\* status, whether the content was read, and whether the store failed
ReadOutcomes(location) ==
    (IF fs_files[location] = NoFile
     THEN {[st |-> "NotFound", reads |-> 0, fault |-> 0]}
     ELSE {[st |-> "OK", reads |-> 1, fault |-> 0]})
    \cup (IF CanFail THEN {[st |-> "IOError", reads |-> 0, fault |-> 1]} ELSE {})

\* load_tablet_metadata, then get_tablet_metadata: a cached object is
\* returned without touching the store; a loaded one is put into the cache
load_tablet_metadata(location, o) ==
    LET p == ParseMetadata(fs_files[location])
    IN  IF o.st # "OK" THEN [st |-> o.st, val |-> create_tablet(0)]
        ELSE IF ~p.parsed THEN [st |-> "Corruption", val |-> create_tablet(0)]
        ELSE [st |-> "OK", val |-> p.val]

get_tablet_metadata(location) ==
    IF metacache[location].kind = "metadata"
    THEN {[st |-> "OK", val |-> metacache[location].val, cache |-> metacache,
           opens |-> 0, reads |-> 0, fault |-> 0]}
    ELSE {LET r == load_tablet_metadata(location, o)
          IN  [st |-> r.st, val |-> r.val,
               cache |-> IF r.st = "OK"
                         THEN fill_metacache(metacache, location, MetadataEntry(r.val))
                         ELSE metacache,
               opens |-> 1, reads |-> o.reads, fault |-> o.fault]
          : o \in ReadOutcomes(location)}

load_txn_log(location, o) ==
    LET p == ParseTxnLog(fs_files[location])
    IN  IF o.st # "OK" THEN [st |-> o.st, val |-> SchemaChangeLog(0, 0)]
        ELSE IF ~p.parsed THEN [st |-> "Corruption", val |-> SchemaChangeLog(0, 0)]
        ELSE [st |-> "OK", val |-> p.val]

get_txn_log(location) ==
    IF metacache[location].kind = "txnlog"
    THEN {[st |-> "OK", val |-> metacache[location].val, cache |-> metacache,
           opens |-> 0, reads |-> 0, fault |-> 0]}
    ELSE {LET r == load_txn_log(location, o)
          IN  [st |-> r.st, val |-> r.val,
               cache |-> IF r.st = "OK"
                         THEN fill_metacache(metacache, location, TxnLogEntry(r.val))
                         ELSE metacache,
               opens |-> 1, reads |-> o.reads, fault |-> o.fault]
          : o \in ReadOutcomes(location)}

\* new_writable_file, append and close: the object is written whole or not
\* at all
WriteOutcomes ==
    {[st |-> "OK", fault |-> 0]}
        \cup (IF CanFail THEN {[st |-> "IOError", fault |-> 1]} ELSE {})

\* fs::delete_file
DeleteOutcomes(location) ==
    (IF fs_files[location] = NoFile
     THEN {[st |-> "NotFound", fault |-> 0]}
     ELSE {[st |-> "OK", fault |-> 0]})
    \cup (IF CanFail THEN {[st |-> "IOError", fault |-> 1]} ELSE {})

\* ---- publish(): one caller's call, its locals and what it did
IdlePub(files) ==
    [pc |-> "idle", tablet |-> 0, base |-> 0, new |-> 0, txns |-> <<>>,
     base_metadata |-> create_tablet(0),    \* res.value()
     new_metadata |-> create_tablet(0),     \* the copy the logs are applied to
     txnlog |-> SchemaChangeLog(0, 0),      \* the log fetched for txns[i]
     i |-> 0,
     st |-> "OK",                           \* the status returned
     opens |-> 0,           \* open attempts on txn-log objects
     reads |-> 0,           \* content reads of txn-log objects
     dels |-> {},           \* txn ids whose log deletion was attempted
     deleted |-> {},        \* txn ids whose log deletion returned OK
     wrote |-> FALSE,       \* put_metadata wrote the new version
     failed |-> "none",     \* the step that failed: base, load, apply, put
     fault |-> FALSE,       \* a read or write of this call hit a store failure
     fs0 |-> files]         \* the store when the call began

NoPrev == [valid |-> FALSE]

\* what is left of a call once it has returned
Returned(p, st, failed) ==
    [p EXCEPT !.pc = "done", !.st = st, !.failed = failed,
              !.new_metadata = create_tablet(0),
              !.txnlog = SchemaChangeLog(0, 0), !.i = 0]

\* the txn-id lists a caller passes: every subset of the ids in rising order
RECURSIVE Rising(_)
Rising(S) ==
    IF S = {} THEN <<>>
    ELSE LET x == CHOOSE y \in S : \A z \in S : y <= z
         IN  <<x>> \o Rising(S \ {x})

TxnLists == {Rising(S) : S \in SUBSET TxnIds}

Range(f) == {f[k] : k \in DOMAIN f}

\* the logs a writer leaves for a txn: a write with rows, a compaction of
\* rowset 1 alone, and a schema change
LogChoices(tablet_id, txn_id) ==
    {WriteLog(tablet_id, txn_id, 2, 5),
     CompactionLog(tablet_id, txn_id, <<1>>, 1, 5),
     SchemaChangeLog(tablet_id, txn_id)}

\* the metadata a tablet starts from: a new tablet, or one with two rowsets
BaseChoices(tablet_id) ==
    {create_tablet(tablet_id),
     [id |-> tablet_id, version |-> 1, next_rowset_id |-> 3,
      rowsets |-> <<[id |-> 1, segments_size |-> 1, num_rows |-> 5],
                    [id |-> 2, segments_size |-> 1, num_rows |-> 5]>>]}

InitPubWith(m) ==
    /\ fs_files = [l \in Locations |->
                     IF l = tablet_metadata_location(m.id, m.version)
                     THEN SerializeMetadata(m) ELSE NoFile]
    /\ metacache = [l \in Locations |-> NoEntry]
    /\ faults = 0
    /\ pub = [c \in Callers |-> IdlePub(fs_files)]
    /\ prev = [c \in Callers |-> NoPrev]

InitPub == \E t \in Tablets : \E m \in BaseChoices(t) : InitPubWith(m)

\* where publish goes after apply_txn_log returned st for txns[i - 1]
after_apply_skipping_errors(st, i, n) == IF i < n THEN "log" ELSE "put"

after_apply(st, i, n) ==
    IF st # "OK" THEN "done" ELSE IF i < n THEN "log" ELSE "put"

\* where publish goes after the i-th deletion
after_first_delete(i, n) == "done"

after_delete(i, n) == IF i < n THEN "del" ELSE "done"

\* publish is entered. prev keeps the outcome of the caller's last call when
\* this call repeats it: same arguments, and nothing else touched the store
\* in between.
PublishCall(c) ==
    /\ pub[c].pc \in {"idle", "done"}
    /\ \E t \in Tablets, base \in Versions, new \in Versions, txns \in TxnLists :
        /\ base < new
        /\ pub' = [pub EXCEPT ![c] =
                     [IdlePub(fs_files) EXCEPT !.pc = "base", !.tablet = t,
                                               !.base = base, !.new = new,
                                               !.txns = txns]]
        /\ prev' = [prev EXCEPT ![c] =
                      IF /\ pub[c].pc = "done"
                         /\ <<pub[c].tablet, pub[c].base, pub[c].new, pub[c].txns>>
                                = <<t, base, new, txns>>
                      THEN [valid |-> TRUE, st |-> pub[c].st,
                            wrote |-> pub[c].wrote,
                            deleted |-> pub[c].deleted,
                            newfile |-> fs_files[tablet_metadata_location(t, new)]]
                      ELSE NoPrev]
    /\ UNCHANGED <<fs_files, metacache, faults>>
    /\ UNCHANGED <<scanVars, fnVars>>

\* lines 422-437: read the base metadata, copy it, set the version
PublishGetBase(c) ==
    /\ pub[c].pc = "base"
    /\ \E o \in get_tablet_metadata(tablet_metadata_location(pub[c].tablet, pub[c].base)) :
        /\ metacache' = o.cache
        /\ faults' = faults + o.fault
        /\ pub' = [pub EXCEPT ![c] =
                     LET p == [@ EXCEPT !.fault = @ \/ o.fault = 1]
                     IN  IF o.st = "OK"
                         THEN [p EXCEPT !.base_metadata = o.val,
                                        !.new_metadata = [o.val EXCEPT !.version = p.new],
                                        !.i = 0,
                                        !.pc = IF p.txns = <<>> THEN "put" ELSE "log"]
                         ELSE IF o.st = "NotFound"
                         THEN [p EXCEPT !.pc = "probe_base", !.st = o.st]
                         ELSE Returned(p, o.st, "base")]
    /\ UNCHANGED <<fs_files, prev>>
    /\ UNCHANGED <<scanVars, fnVars>>

\* a publish that takes a base that is not found for a publish already done,
\* without looking for the new version
PublishProbeBaseSkipped(c) ==
    /\ pub[c].pc = "probe_base"
    /\ pub' = [pub EXCEPT ![c] = Returned(@, "OK", "none")]
    /\ UNCHANGED <<fs_files, metacache, faults, prev>>
    /\ UNCHANGED <<scanVars, fnVars>>

\* line 425: the base is not found; does the new version exist?
PublishProbeBase(c) ==
    /\ pub[c].pc = "probe_base"
    /\ \E o \in get_tablet_metadata(tablet_metadata_location(pub[c].tablet, pub[c].new)) :
        /\ metacache' = o.cache
        /\ faults' = faults + o.fault
        /\ pub' = [pub EXCEPT ![c] =
                     LET p == [@ EXCEPT !.fault = @ \/ o.fault = 1]
                     IN  IF o.st = "OK" THEN Returned(p, "OK", "none")
                         ELSE Returned(p, p.st, "base")]
    /\ UNCHANGED <<fs_files, prev>>
    /\ UNCHANGED <<scanVars, fnVars>>

\* lines 441-442: fetch the log of txns[i]
PublishGetLog(c) ==
    /\ pub[c].pc = "log"
    /\ \E o \in get_txn_log(txn_log_location(pub[c].tablet, pub[c].txns[pub[c].i + 1])) :
        /\ metacache' = o.cache
        /\ faults' = faults + o.fault
        /\ pub' = [pub EXCEPT ![c] =
                     LET p == [@ EXCEPT !.fault = @ \/ o.fault = 1,
                                        !.opens = @ + o.opens,
                                        !.reads = @ + o.reads]
                     IN  IF o.st = "OK"
                         THEN [p EXCEPT !.txnlog = o.val, !.pc = "apply"]
                         ELSE IF o.st = "NotFound"
                         THEN [p EXCEPT !.pc = "probe_log", !.st = o.st]
                         ELSE Returned(p, o.st, "load")]
    /\ UNCHANGED <<fs_files, prev>>
    /\ UNCHANGED <<scanVars, fnVars>>

\* lines 443-450: the log is not found; does the new version exist?
PublishProbeLog(c) ==
    /\ pub[c].pc = "probe_log"
    /\ \E o \in get_tablet_metadata(tablet_metadata_location(pub[c].tablet, pub[c].new)) :
        /\ metacache' = o.cache
        /\ faults' = faults + o.fault
        /\ pub' = [pub EXCEPT ![c] =
                     LET p == [@ EXCEPT !.fault = @ \/ o.fault = 1]
                     IN  IF o.st = "OK" THEN Returned(p, "OK", "none")
                         ELSE Returned(p, p.st, "load")]
    /\ UNCHANGED <<fs_files, prev>>
    /\ UNCHANGED <<scanVars, fnVars>>

\* lines 452-456: apply the log to the copy
PublishApply(c) ==
    /\ pub[c].pc = "apply"
    /\ \E garbage \in GarbageChoices(pub[c].txnlog, pub[c].new_metadata) :
        LET r == apply_txn_log(pub[c].txnlog, pub[c].new_metadata, garbage)
            next == after_apply(r.st, pub[c].i + 1, Len(pub[c].txns))
            p == [pub[c] EXCEPT !.new_metadata = r.md, !.i = @ + 1, !.pc = next,
                                !.failed = IF r.st # "OK" THEN "apply" ELSE @]
        IN  pub' = [pub EXCEPT ![c] =
                      IF next = "done" THEN Returned(p, r.st, p.failed) ELSE p]
    /\ UNCHANGED <<fs_files, metacache, faults, prev>>
    /\ UNCHANGED <<scanVars, fnVars>>

\* lines 460-463: put_metadata(new_metadata)
PublishPut(c) ==
    /\ pub[c].pc = "put"
    /\ \E o \in WriteOutcomes :
        LET location == tablet_metadata_location(pub[c].tablet, pub[c].new)
            p == [pub[c] EXCEPT !.fault = @ \/ o.fault = 1]
        IN  /\ faults' = faults + o.fault
            /\ IF o.st = "OK"
               THEN /\ fs_files' = [fs_files EXCEPT
                                      ![location] = SerializeMetadata(p.new_metadata)]
                    /\ metacache' = fill_metacache(metacache, location,
                                                   MetadataEntry(p.new_metadata))
                    /\ pub' = [pub EXCEPT ![c] =
                                 IF p.txns = <<>>
                                 THEN Returned([p EXCEPT !.wrote = TRUE], "OK", p.failed)
                                 ELSE [p EXCEPT !.wrote = TRUE, !.i = 0, !.pc = "del"]]
               ELSE /\ pub' = [pub EXCEPT ![c] = Returned(p, o.st, "put")]
                    /\ UNCHANGED <<fs_files, metacache>>
    /\ UNCHANGED prev
    /\ UNCHANGED <<scanVars, fnVars>>

\* lines 466-471: delete_txn_log(txns[i]); a failure is only logged
PublishDelete(c) ==
    /\ pub[c].pc = "del"
    /\ LET txn_id == pub[c].txns[pub[c].i + 1]
           location == txn_log_location(pub[c].tablet, txn_id)
       IN  \E o \in DeleteOutcomes(location) :
            LET next == after_delete(pub[c].i + 1, Len(pub[c].txns))
                p == [pub[c] EXCEPT !.i = @ + 1, !.pc = next,
                                    !.dels = @ \cup {txn_id},
                                    !.deleted = IF o.st = "OK" THEN @ \cup {txn_id} ELSE @]
            IN  /\ metacache' = erase_metacache(metacache, location)
                /\ fs_files' = IF o.st = "OK" THEN [fs_files EXCEPT ![location] = NoFile]
                               ELSE fs_files
                /\ faults' = faults + o.fault
                /\ pub' = [pub EXCEPT ![c] =
                             IF next = "done" THEN Returned(p, "OK", p.failed) ELSE p]
    /\ UNCHANGED prev
    /\ UNCHANGED <<scanVars, fnVars>>

\* put_txn_log by a writer, between publish calls
PutTxnLog ==
    /\ \A c \in Callers : pub[c].pc \in {"idle", "done"}
    /\ \E t \in Tablets, x \in TxnIds :
        /\ fs_files[txn_log_location(t, x)] = NoFile
        /\ \E g \in LogChoices(t, x), o \in WriteOutcomes :
            /\ faults' = faults + o.fault
            /\ IF o.st = "OK"
               THEN /\ fs_files' = [fs_files EXCEPT
                                      ![txn_log_location(t, x)] = SerializeTxnLog(g)]
                    /\ metacache' = fill_metacache(metacache, txn_log_location(t, x),
                                                   TxnLogEntry(g))
               ELSE UNCHANGED <<fs_files, metacache>>
    /\ pub' = [c \in Callers |-> IdlePub(fs_files')]
    /\ UNCHANGED prev
    /\ UNCHANGED <<scanVars, fnVars>>

\* delete_tablet_metadata of a version that is not the latest, between
\* publish calls
DeleteTabletMetadata ==
    /\ \A c \in Callers : pub[c].pc \in {"idle", "done"}
    /\ \E t \in Tablets, v \in Versions :
        LET location == tablet_metadata_location(t, v)
        IN  /\ fs_files[location] # NoFile
            /\ \E w \in Versions :
                  w > v /\ fs_files[tablet_metadata_location(t, w)] # NoFile
            /\ \E o \in DeleteOutcomes(location) :
                /\ metacache' = erase_metacache(metacache, location)
                /\ fs_files' = IF o.st = "OK" THEN [fs_files EXCEPT ![location] = NoFile]
                               ELSE fs_files
                /\ faults' = faults + o.fault
    /\ pub' = [c \in Callers |-> IdlePub(fs_files')]
    /\ UNCHANGED prev
    /\ UNCHANGED <<scanVars, fnVars>>

\* prune_metacache: the cache drops its entries
PruneMetacache ==
    /\ \E l \in Locations : metacache[l] # NoEntry
    /\ metacache' = [l \in Locations |-> NoEntry]
    /\ UNCHANGED <<fs_files, faults, pub, prev>>
    /\ UNCHANGED <<scanVars, fnVars>>

PubNext ==
    \/ \E c \in Callers : PublishCall(c)
    \/ \E c \in Callers : PublishGetBase(c)
    \/ \E c \in Callers : PublishProbeBase(c)
    \/ \E c \in Callers : PublishGetLog(c)
    \/ \E c \in Callers : PublishProbeLog(c)
    \/ \E c \in Callers : PublishApply(c)
    \/ \E c \in Callers : PublishPut(c)
    \/ \E c \in Callers : PublishDelete(c)
    \/ PutTxnLog
    \/ DeleteTabletMetadata
    \/ PruneMetacache

(***************************************************************************)
(* apply_txn_log called on its own: one compaction log applied to one      *)
(* metadata.                                                               *)
(***************************************************************************)
\* rowsets a metadata holds, and ids a log can name; id MaxRowsets + 1 is
\* the id of no rowset
MaxRowsets == 3
RowsetIds == 1..MaxRowsets
InputIds == 1..(MaxRowsets + 1)

RECURSIVE NoRepeat(_)
NoRepeat(seq) ==
    \/ seq = <<>>
    \/ /\ \A k \in 2..Len(seq) : seq[k] # seq[1]
       /\ NoRepeat(Tail(seq))

\* sequences over S of length lo..hi
SeqsOf(S, lo, hi) == UNION {[1..n -> S] : n \in lo..hi}

\* metadata with up to MaxRowsets rowsets of distinct ids, in any order
ApplyMetadataChoices ==
    {[id |-> 1, version |-> 2, next_rowset_id |-> MaxRowsets + 2,
      rowsets |-> [k \in 1..Len(ids) |->
                     [id |-> ids[k], segments_size |-> 1, num_rows |-> 5]]] :
        ids \in {q \in SeqsOf(RowsetIds, 0, MaxRowsets) : NoRepeat(q)}}

\* compaction logs with a non-empty input list, with or without output rows
ApplyLogChoices ==
    {CompactionLog(1, 1, inputs, 2, rows) :
        inputs \in SeqsOf(InputIds, 1, MaxRowsets), rows \in {0, 5}}

NoApply == [pc |-> "quiet"]

ApplyQuiet == ap = NoApply

InitApply ==
    \E m \in ApplyMetadataChoices, g \in ApplyLogChoices :
        \E garbage \in GarbageChoices(g, m) :
            ap = [pc |-> "call", metadata |-> m, log |-> g, garbage |-> garbage,
                  st |-> "OK", md |-> m]

\* apply_txn_log(log, &metadata)
ApplyTxnLog ==
    /\ ap.pc = "call"
    /\ LET r == apply_txn_log(ap.log, ap.metadata, ap.garbage)
       IN  ap' = [ap EXCEPT !.pc = "done", !.st = r.st, !.md = r.md]
    /\ UNCHANGED exceptApply

(***************************************************************************)
(* A sequence of txn logs applied to one metadata, each log holding one    *)
(* op_write or one op_compaction, as publish applies them one after the    *)
(* other (lines 446-451); the sequence ends at the first failure.          *)
(***************************************************************************)
MaxApplied == 2

\* segments_size() of the rowset of a log
SegmentChoices == 0..2

\* the rowset ids of a metadata
IdsOf(metadata) == {metadata.rowsets[k].id : k \in 1..Len(metadata.rowsets)}

\* the logs that can come next: an op_write, or an op_compaction whose
\* inputs are ids of the metadata or an id it does not have
SeqLogChoices(metadata) ==
    {WriteLog(1, 1, segs, rows) : segs \in SegmentChoices, rows \in {0, 5}}
        \cup {CompactionLog(1, 1, inputs, segs, rows) :
                inputs \in SeqsOf(IdsOf(metadata) \cup {0}, 1, 2),
                segs \in SegmentChoices, rows \in {0, 5}}

InitSeq ==
    \E m \in ApplyMetadataChoices :
        ap = [pc |-> "seq", n |-> 0, metadata |-> m, log |-> WriteLog(1, 1, 0, 0),
              garbage |-> <<>>, st |-> "OK", md |-> m]

\* the next apply_txn_log(log, &metadata) of the loop at lines 446-451
ApplyNextLog ==
    /\ ap.pc = "seq"
    /\ ap.st = "OK"
    /\ ap.n < MaxApplied
    /\ \E g \in SeqLogChoices(ap.md) : \E garbage \in GarbageChoices(g, ap.md) :
        LET r == apply_txn_log(g, ap.md, garbage)
        IN  ap' = [ap EXCEPT !.n = @ + 1, !.metadata = ap.md, !.log = g,
                             !.garbage = garbage, !.st = r.st,
                             !.md = IF r.st = "OK" THEN r.md ELSE ap.md]
    /\ UNCHANGED exceptApply

(***************************************************************************)
(* publish over op_write logs: the store starts with a base metadata and   *)
(* one op_write log per txn id.                                            *)
(***************************************************************************)
\* an op_write log without a rowset
EmptyWriteLog(tablet_id, txn_id) ==
    [WriteLog(tablet_id, txn_id, 0, 0) EXCEPT !.op_write = NoOpWrite]

\* op_write logs: one or two segments, with rows or without, or no rowset
WriteLogChoices(tablet_id, txn_id) ==
    {WriteLog(tablet_id, txn_id, segs, rows) : segs \in {1, 2}, rows \in {0, 5}}
        \cup {EmptyWriteLog(tablet_id, txn_id)}

InitWrites ==
    \E t \in Tablets : \E m \in BaseChoices(t) :
        \E logs \in [TxnIds -> UNION {WriteLogChoices(t, x) : x \in TxnIds}] :
            /\ \A x \in TxnIds : logs[x].txn_id = x
            /\ fs_files = [l \in Locations |->
                             IF l = tablet_metadata_location(m.id, m.version)
                             THEN SerializeMetadata(m)
                             ELSE IF \E x \in TxnIds : l = txn_log_location(t, x)
                             THEN SerializeTxnLog(logs[l[3]])
                             ELSE NoFile]
            /\ metacache = [l \in Locations |-> NoEntry]
            /\ faults = 0
            /\ pub = [c \in Callers |-> IdlePub(fs_files)]
            /\ prev = [c \in Callers |-> NoPrev]

WritesNext ==
    \/ \E c \in Callers : PublishCall(c)
    \/ \E c \in Callers : PublishGetBase(c)
    \/ \E c \in Callers : PublishGetLog(c)
    \/ \E c \in Callers : PublishProbeLog(c)
    \/ \E c \in Callers : PublishApply(c)
    \/ \E c \in Callers : PublishPut(c)
    \/ \E c \in Callers : PublishDelete(c)

(***************************************************************************)
(* Two request handlers inside publish with the same arguments: the store  *)
(* holds the base metadata and one log per txn id, and both calls have     *)
(* been entered.                                                           *)
(***************************************************************************)
TwinCallers == {1, 2}

\* the logs of the txns: op_write logs, or a compaction of rowset 1
TwinLogChoices(tablet_id, txn_id) ==
    WriteLogChoices(tablet_id, txn_id)
        \cup {CompactionLog(tablet_id, txn_id, <<1>>, 1, 5)}

InitTwin ==
    \E t \in Tablets : \E m \in BaseChoices(t), txns \in TxnLists :
        \E logs \in [TxnIds -> UNION {TwinLogChoices(t, x) : x \in TxnIds}] :
            /\ \A x \in TxnIds : logs[x].txn_id = x
            /\ fs_files = [l \in Locations |->
                             IF l = tablet_metadata_location(m.id, m.version)
                             THEN SerializeMetadata(m)
                             ELSE IF \E x \in TxnIds : l = txn_log_location(t, x)
                             THEN SerializeTxnLog(logs[l[3]])
                             ELSE NoFile]
            /\ metacache = [l \in Locations |-> NoEntry]
            /\ faults = 0
            /\ pub = [c \in TwinCallers |->
                        [IdlePub(fs_files) EXCEPT !.pc = "base", !.tablet = t,
                                                  !.base = m.version,
                                                  !.new = m.version + 1,
                                                  !.txns = txns]]
            /\ prev = [c \in TwinCallers |-> NoPrev]

TwinNext ==
    \/ \E c \in TwinCallers : PublishGetBase(c)
    \/ \E c \in TwinCallers : PublishGetLog(c)
    \/ \E c \in TwinCallers : PublishProbeLog(c)
    \/ \E c \in TwinCallers : PublishApply(c)
    \/ \E c \in TwinCallers : PublishPut(c)
    \/ \E c \in TwinCallers : PublishDelete(c)

(***************************************************************************)
(* put_tablet_metadata and get_tablet_metadata called on their own: one    *)
(* request thread puts, another gets.                                      *)
(***************************************************************************)
NoPut == [pc |-> "idle", md |-> create_tablet(0), st |-> "OK"]
NoGet == [pc |-> "idle", location |-> NoFile, val |-> create_tablet(0), st |-> "OK",
          after |-> FALSE, fault |-> FALSE]
NoMeta == [put |-> NoPut, get |-> NoGet]

MetaQuiet == mt = NoMeta


\* the metadata a caller puts: any version of a tablet, without rowsets or
\* with two
MetadataChoices ==
    {[m EXCEPT !.version = v] : m \in UNION {BaseChoices(t) : t \in Tablets},
                                v \in Versions}

\* fill_metacache: the cache after _metacache->insert. When insert returns
\* no handle the value is deleted; the entry the key had before is either
\* still there or gone.
try_fill_metacache(cache, key, value) ==
    {fill_metacache(cache, key, value), cache, erase_metacache(cache, key)}

\* put_tablet_metadata, lines 150-154: write the object; a new call is
\* under way, so a get in progress no longer follows the last put
PutWrite ==
    /\ mt.put.pc \in {"idle", "done"}
    /\ \E m \in MetadataChoices, o \in WriteOutcomes :
        /\ faults' = faults + o.fault
        /\ fs_files' = IF o.st = "OK"
                       THEN [fs_files EXCEPT
                               ![tablet_metadata_location(m.id, m.version)] =
                                   SerializeMetadata(m)]
                       ELSE fs_files
        /\ mt' = [mt EXCEPT !.put = [pc |-> IF o.st = "OK" THEN "fill" ELSE "done",
                                     md |-> m, st |-> o.st],
                            !.get.after = FALSE]
    /\ UNCHANGED metacache
    /\ UNCHANGED exceptMeta

\* put_tablet_metadata, lines 157-160: put into the metacache, return OK
PutFill ==
    /\ mt.put.pc = "fill"
    /\ \E cache \in try_fill_metacache(
                       metacache,
                       tablet_metadata_location(mt.put.md.id, mt.put.md.version),
                       MetadataEntry(mt.put.md)) :
        metacache' = cache
    /\ mt' = [mt EXCEPT !.put.pc = "done"]
    /\ UNCHANGED <<fs_files, faults>>
    /\ UNCHANGED exceptMeta

\* the last put_tablet_metadata returned OK and wrote this location
PutReturnedOk(location) ==
    /\ mt.put.pc = "done"
    /\ mt.put.st = "OK"
    /\ location = tablet_metadata_location(mt.put.md.id, mt.put.md.version)

\* get_tablet_metadata, lines 191-193: the cache lookup
GetLookup ==
    /\ mt.get.pc \in {"idle", "done"}
    /\ \E t \in Tablets, v \in Versions :
        LET location == tablet_metadata_location(t, v)
            g == [NoGet EXCEPT !.location = location,
                               !.after = PutReturnedOk(location)]
        IN  mt' = [mt EXCEPT !.get =
                     IF metacache[location].kind = "metadata"
                     THEN [g EXCEPT !.pc = "done", !.val = metacache[location].val]
                     ELSE [g EXCEPT !.pc = "load"]]
    /\ UNCHANGED <<fs_files, metacache, faults>>
    /\ UNCHANGED exceptMeta

\* get_tablet_metadata, line 194: load_tablet_metadata
GetLoad ==
    /\ mt.get.pc = "load"
    /\ \E o \in ReadOutcomes(mt.get.location) :
        LET r == load_tablet_metadata(mt.get.location, o)
        IN  /\ faults' = faults + o.fault
            /\ mt' = [mt EXCEPT !.get.pc = IF r.st = "OK" THEN "fill" ELSE "done",
                                !.get.st = r.st,
                                !.get.val = r.val,
                                !.get.fault = (o.fault = 1)]
    /\ UNCHANGED <<fs_files, metacache>>
    /\ UNCHANGED exceptMeta

\* get_tablet_metadata, lines 195-200: put into the metacache, return
GetFill ==
    /\ mt.get.pc = "fill"
    /\ \E cache \in try_fill_metacache(metacache, mt.get.location,
                                       MetadataEntry(mt.get.val)) :
        metacache' = cache
    /\ mt' = [mt EXCEPT !.get.pc = "done"]
    /\ UNCHANGED <<fs_files, faults>>
    /\ UNCHANGED exceptMeta

MetaNext ==
    \/ PutWrite
    \/ PutFill
    \/ GetLookup
    \/ GetLoad
    \/ GetFill
    \/ PruneMetacache

(***************************************************************************)
(* publish over a store that may lack the base version: any of the         *)
(* versions of the tablet is there or not, and no txn log is.              *)
(***************************************************************************)
InitBase ==
    \E t \in Tablets : \E present \in SUBSET Versions :
        /\ fs_files = [l \in Locations |->
                         IF \E v \in present : l = tablet_metadata_location(t, v)
                         THEN SerializeMetadata([create_tablet(t) EXCEPT !.version = l[3]])
                         ELSE NoFile]
        /\ metacache = [l \in Locations |-> NoEntry]
        /\ faults = 0
        /\ pub = [c \in Callers |-> IdlePub(fs_files)]
        /\ prev = [c \in Callers |-> NoPrev]

BaseNext ==
    \/ \E c \in Callers : PublishCall(c)
    \/ \E c \in Callers : PublishGetBase(c)
    \/ \E c \in Callers : PublishProbeBase(c)
    \/ \E c \in Callers : PublishGetLog(c)
    \/ \E c \in Callers : PublishProbeLog(c)
    \/ \E c \in Callers : PublishPut(c)
    \/ PruneMetacache

(***************************************************************************)
(* drop_tablet: the store holds the objects of the tablets and of one more *)
(* tablet under the same root; a get_tablet_metadata may be in progress.   *)
(***************************************************************************)
\* a tablet whose id shares hex digits with the ids of Tablets
OtherTablets == {17}

\* fmt::format("{:016X}", tablet_id): sixteen hex digits, for ids below 16^4
Hex16(tablet_id) ==
    [k \in 1..16 |-> IF k <= 12 THEN 0
                     ELSE (tablet_id \div (16 ^ (16 - k))) % 16]

\* tablet_schema_cache_key
tablet_schema_cache_key(tablet_id) == <<"schema", tablet_id>>

\* the name of the object at a location: tbl_<id:016X>_<version> and
\* txn_<id:016X>_<txn id>
file_name(location) == <<location[1], Hex16(location[2]), location[3]>>

tablet_metadata_prefix(tablet_id) == <<"tbl", Hex16(tablet_id)>>
txnlog_prefix(tablet_id) == <<"txn", Hex16(tablet_id)>>

HasPrefixString(name, prefix) == SubSeq(name, 1, Len(prefix)) = prefix

ObjectLocations(tablets) ==
    {tablet_metadata_location(t, v) : t \in tablets, v \in Versions}
        \cup {txn_log_location(t, x) : t \in tablets, x \in TxnIds}

DropLocations ==
    ObjectLocations(Tablets \cup OtherTablets)
        \cup {tablet_schema_cache_key(t) : t \in Tablets \cup OtherTablets}

\* iterate_dir with scan_cb: the objects of the root whose name has one of
\* the two prefixes
scan_cb(tablet_id) ==
    {l \in ObjectLocations(Tablets \cup OtherTablets) :
        /\ fs_files[l] # NoFile
        /\ \/ HasPrefixString(file_name(l), tablet_metadata_prefix(tablet_id))
           \/ HasPrefixString(file_name(l), txnlog_prefix(tablet_id))}

RECURSIVE InSomeOrder(_)
InSomeOrder(S) ==
    IF S = {} THEN <<>>
    ELSE LET x == CHOOSE y \in S : TRUE IN <<x>> \o InSomeOrder(S \ {x})

NoDrop == [pc |-> "idle", tablet |-> 0, objects |-> <<>>, i |-> 0, st |-> "OK",
           failed |-> FALSE, touched |-> FALSE]

DropQuiet == dr = NoDrop

\* every object is in the store; the cache holds all of them and the
\* schemas, or nothing
InitDropStore ==
    /\ fs_files = [l \in DropLocations |->
                     IF l[1] = "tbl"
                     THEN SerializeMetadata([create_tablet(l[2]) EXCEPT !.version = l[3]])
                     ELSE IF l[1] = "txn"
                     THEN SerializeTxnLog(WriteLog(l[2], l[3], 1, 5))
                     ELSE NoFile]
    /\ \E cached \in BOOLEAN :
        metacache = [l \in DropLocations |->
                       IF ~cached THEN NoEntry
                       ELSE IF l[1] = "tbl"
                       THEN MetadataEntry([create_tablet(l[2]) EXCEPT !.version = l[3]])
                       ELSE IF l[1] = "txn"
                       THEN TxnLogEntry(WriteLog(l[2], l[3], 1, 5))
                       ELSE [kind |-> "schema"]]
    /\ faults = 0
    /\ pub = [c \in Callers |-> IdlePub(<<>>)]
    /\ prev = [c \in Callers |-> NoPrev]

InitDrop == InitDropStore /\ dr = NoDrop

\* a step of drop_tablet changed an object or a cache entry of another tablet
TouchesOthers(tablet_id) ==
    \E l \in DropLocations :
        /\ l[2] # tablet_id
        /\ fs_files'[l] # fs_files[l] \/ metacache'[l] # metacache[l]

\* drop_tablet, lines 127-139: list the root
DropList ==
    /\ dr.pc = "idle"
    /\ \E t \in Tablets :
        \/ /\ dr' = [dr EXCEPT !.pc = "objects", !.tablet = t,
                               !.objects = InSomeOrder(scan_cb(t))]
           /\ UNCHANGED faults
        \/ /\ CanFail
           /\ dr' = [dr EXCEPT !.pc = "done", !.tablet = t, !.st = "IOError"]
           /\ faults' = faults + 1
    /\ UNCHANGED <<fs_files, metacache>>
    /\ UNCHANGED exceptDrop

\* drop_tablet, lines 140-143: erase the object from the cache and delete it
DropObject ==
    /\ dr.pc = "objects"
    /\ dr.i < Len(dr.objects)
    /\ LET obj == dr.objects[dr.i + 1]
       IN  \E o \in DeleteOutcomes(obj) :
            /\ metacache' = erase_metacache(metacache, obj)
            /\ fs_files' = IF o.st = "OK" THEN [fs_files EXCEPT ![obj] = NoFile]
                           ELSE fs_files
            /\ faults' = faults + o.fault
            /\ dr' = [dr EXCEPT !.i = @ + 1,
                                !.failed = @ \/ o.st # "OK",
                                !.touched = @ \/ TouchesOthers(dr.tablet)]
    /\ UNCHANGED exceptDrop

\* drop_tablet, lines 144-146: erase the schema from the cache, return OK
DropSchema ==
    /\ dr.pc = "objects"
    /\ dr.i = Len(dr.objects)
    /\ metacache' = erase_metacache(metacache, tablet_schema_cache_key(dr.tablet))
    /\ UNCHANGED <<fs_files, faults>>
    /\ dr' = [dr EXCEPT !.pc = "done", !.st = "OK",
                        !.touched = @ \/ TouchesOthers(dr.tablet)]
    /\ UNCHANGED exceptDrop

DropNext ==
    \/ DropList
    \/ DropObject
    \/ DropSchema
    \/ GetLookup
    \/ GetLoad
    \/ GetFill

(***************************************************************************)
(* delete_tablet_metadata next to a get_tablet_metadata on the same store. *)
(***************************************************************************)
NoDelete == [pc |-> "idle", location |-> NoFile, st |-> "OK"]

InitDelete == InitDropStore /\ dr = NoDelete

\* delete_tablet_metadata, lines 204-205: erase the cache entry
DeleteErase ==
    /\ dr.pc = "idle"
    /\ \E t \in Tablets, v \in Versions :
        LET location == tablet_metadata_location(t, v)
        IN  /\ metacache' = erase_metacache(metacache, location)
            /\ dr' = [dr EXCEPT !.pc = "delete", !.location = location]
    /\ UNCHANGED <<fs_files, faults>>
    /\ UNCHANGED exceptDrop

\* delete_tablet_metadata, line 206: fs::delete_file, whose status is returned
DeleteFile ==
    /\ dr.pc = "delete"
    /\ \E o \in DeleteOutcomes(dr.location) :
        /\ fs_files' = IF o.st = "OK" THEN [fs_files EXCEPT ![dr.location] = NoFile]
                       ELSE fs_files
        /\ faults' = faults + o.fault
        /\ dr' = [dr EXCEPT !.pc = "done", !.st = o.st]
    /\ UNCHANGED metacache
    /\ UNCHANGED exceptDrop

DeleteNext ==
    \/ DeleteErase
    \/ DeleteFile
    \/ GetLookup
    \/ GetLoad
    \/ GetFill

(***************************************************************************)
(* compute_priority called on its own, for one submit count after the      *)
(* other.                                                                  *)
(***************************************************************************)
MaxSubmitted == 2500

NoPriority == [n |-> -1, nice |-> 20, last |-> 20]

PriorityQuiet == np = NoPriority

InitPriority == np = [n |-> 0, nice |-> compute_priority(0), last |-> 20]

\* compute_priority(n + 1); last keeps the result for n
ComputePriority ==
    /\ np.n >= 0
    /\ np.n < MaxSubmitted
    /\ np' = [n |-> np.n + 1, nice |-> compute_priority(np.n + 1), last |-> np.nice]
    /\ UNCHANGED exceptPriority

FnQuiet == ApplyQuiet /\ MetaQuiet /\ DropQuiet /\ PriorityQuiet

(***************************************************************************)
(* Specifications.                                                         *)
(***************************************************************************)
\* the scan node alone: the tablet manager stays idle
PubQuiet == InitPubWith(create_tablet(1))

\* the tablet manager alone: a scan node without scan ranges, never called
ScanQuiet == InitScanWith(0, -1)

InitSpecScan == InitScan /\ PubQuiet /\ FnQuiet
InitSpecScanLimit == InitScanLimit /\ PubQuiet /\ FnQuiet
InitSpecScanPools == InitScanPools /\ PubQuiet /\ FnQuiet
InitSpecScanNarrow == InitScanNarrow /\ PubQuiet /\ FnQuiet
InitSpecPub == InitPub /\ ScanQuiet /\ FnQuiet
InitSpecApply == InitApply /\ ScanQuiet /\ PubQuiet /\ MetaQuiet /\ DropQuiet /\ PriorityQuiet
InitSpecDrop == InitDrop /\ ScanQuiet /\ ApplyQuiet /\ MetaQuiet /\ PriorityQuiet
InitSpecDelete == InitDelete /\ ScanQuiet /\ ApplyQuiet /\ MetaQuiet /\ PriorityQuiet
InitSpecPriority == InitPriority /\ ScanQuiet /\ PubQuiet /\ ApplyQuiet /\ MetaQuiet /\ DropQuiet
InitSpecMeta == PubQuiet /\ ScanQuiet /\ FnQuiet
InitSpecBase == InitBase /\ ScanQuiet /\ FnQuiet
InitSpecWrites == InitWrites /\ ScanQuiet /\ FnQuiet
InitSpecTwin == InitTwin /\ ScanQuiet /\ FnQuiet
InitSpecSeq == InitSeq /\ ScanQuiet /\ PubQuiet /\ MetaQuiet /\ DropQuiet /\ PriorityQuiet

SpecScan == InitSpecScan /\ [][ScanNext]_vars
SpecScanLimit == InitSpecScanLimit /\ [][ScanNext]_vars
SpecScanPools == InitSpecScanPools /\ [][ScanNext]_vars
SpecScanNarrow == InitSpecScanNarrow /\ [][ScanNext]_vars
SpecPub == InitSpecPub /\ [][PubNext]_vars
SpecApply == InitSpecApply /\ [][ApplyTxnLog]_vars
SpecWrites == InitSpecWrites /\ [][WritesNext]_vars
SpecMeta == InitSpecMeta /\ [][MetaNext]_vars
SpecBase == InitSpecBase /\ [][BaseNext]_vars
SpecDrop == InitSpecDrop /\ [][DropNext]_vars
SpecDelete == InitSpecDelete /\ [][DeleteNext]_vars
SpecPriority == InitSpecPriority /\ [][ComputePriority]_vars
SpecSeq == InitSpecSeq /\ [][ApplyNextLog]_vars
SpecTwin == InitSpecTwin /\ [][TwinNext]_vars

(***************************************************************************)
(* Properties of the scan node.                                            *)
(***************************************************************************)
\* no task is queued in the pool or running on one of its threads
NoTaskAlive == Queued = {} /\ Executing = 0

\* the consumer waits in blocking_get and nothing is left that could put a
\* chunk or shut the queue down
ConsumerStuck ==
    /\ pcC = "get"
    /\ result_chunks = <<>>
    /\ ~result_shutdown
    /\ NoTaskAlive

OpenScanners == {s \in Scanners : sc[s].is_open /\ ~sc[s].closed}

\* C1: with finite data sources, no error, no limit and a consumer that
\* keeps calling get_next, get_next eventually returns eos: no reachable
\* state of a node with scanners leaves the consumer blocked for ever in
\* blocking_get.
C1_ConsumerNeverBlockedForever ==
    (scan_ranges >= 1 /\ ~errOccurred) => ~ConsumerStuck

\* C2: the scanners that are open and not yet closed never outnumber
\* max_hdfs_file_handle.
C2_OpenScannersWithinHandleBudget ==
    Cardinality(OpenScanners) <= max_hdfs_file_handle

\* C3: with a limit L, the rows returned to the consumer never exceed L,
\* they are exactly L once the limit has been hit (the last chunk is
\* truncated), and every get_next after that returns eos with no rows.
C3_LimitRespected ==
    limit # -1 =>
        /\ rowsOut <= limit
        /\ limitHit => rowsOut = limit
        /\ lastRet.late => (lastRet.eos /\ lastRet.rows = 0)

C3_Witness ==
    /\ limit = 3
    /\ limitHit
    /\ rowsOut = 3
    /\ lastRet.late
    /\ lastRet.eos

\* rows the scanners 1..n have read from their data sources
RECURSIVE RowsRead(_)
RowsRead(n) == IF n = 0 THEN 0 ELSE sc[n].num_rows_read + RowsRead(n - 1)

C5_CloseLeavesEveryScannerClosed ==
    closeReturned =>
        /\ running_threads = 0
        /\ pending_scanners = <<>>
        /\ closed_scanners = num_scanners

\* C6: once a worker has recorded an error status, the consumer is not left
\* blocked in blocking_get: no reachable state has the error recorded, the
\* consumer waiting and nothing left to wake it.
C6_ErrorReachesConsumer ==
    status = "IOError" => ~ConsumerStuck

(***************************************************************************)
(* Properties of publish.                                                  *)
(***************************************************************************)
Done(c) == pub[c].pc = "done"

NewLocation(c) == tablet_metadata_location(pub[c].tablet, pub[c].new)
BaseLocation(c) == tablet_metadata_location(pub[c].tablet, pub[c].base)

\* the call of c has returned and repeated the caller's previous call, which
\* had returned OK; no read or write of the repeated call met a store failure
ReplayDone(c) ==
    /\ Done(c)
    /\ prev[c].valid
    /\ prev[c].st = "OK"
    /\ ~pub[c].fault

\* the previous call wrote the new version and deleted every txn log
PrevDeletedItsLogs(c) ==
    /\ prev[c].wrote
    /\ pub[c].txns # <<>>
    /\ prev[c].deleted = Range(pub[c].txns)

\* the metadata object of the new version exists in the store
NewVersionExists(c) ==
    LET p == ParseMetadata(fs_files[NewLocation(c)])
    IN  p.parsed /\ p.val.version = pub[c].new

\* what get_tablet_metadata would return for the base version
VisibleBase(c) ==
    IF metacache[BaseLocation(c)].kind = "metadata"
    THEN metacache[BaseLocation(c)].val
    ELSE ParseMetadata(fs_files[BaseLocation(c)]).val

\* C7: publish is idempotent: a second call with the same arguments after a
\* first call that returned OK returns OK and leaves at new_version the
\* metadata object the first call left, whether or not the deletions of the
\* first call succeeded.
C7_PublishIdempotent ==
    \A c \in Callers :
        ReplayDone(c) =>
            /\ pub[c].st = "OK"
            /\ fs_files[NewLocation(c)] = prev[c].newfile

\* C8 as stated: a replay of a publish that wrote the new version and deleted
\* its txn logs returns OK with no open attempt and no read on any txn-log
\* object.
C8_ReplayTouchesNoTxnLog ==
    \A c \in Callers :
        (ReplayDone(c) /\ PrevDeletedItsLogs(c)) =>
            /\ pub[c].st = "OK"
            /\ pub[c].opens = 0
            /\ pub[c].reads = 0

\* C8: a replay of a publish that wrote the new version and deleted its txn
\* logs returns OK without reading the content of any txn log and without
\* writing or deleting anything; it makes exactly one open attempt on a
\* txn-log object, the one for the first listed txn, which is not found.
C8_ReplayProbesFirstTxnLogOnce ==
    \A c \in Callers :
        (ReplayDone(c) /\ PrevDeletedItsLogs(c)) =>
            /\ pub[c].st = "OK"
            /\ pub[c].reads = 0
            /\ pub[c].opens = 1
            /\ ~pub[c].wrote
            /\ pub[c].dels = {}
            /\ fs_files = pub[c].fs0

C8_Witness ==
    \E c \in Callers :
        /\ ReplayDone(c) /\ PrevDeletedItsLogs(c)
        /\ Len(pub[c].txns) = 2
        /\ pub[c].st = "OK"
        /\ pub[c].opens = 1

\* C9 as stated: whenever publish returns OK the new version exists and the
\* call attempted the deletion of every listed txn log.
C9_OkMeansEveryDeletionAttempted ==
    \A c \in Callers :
        (Done(c) /\ pub[c].st = "OK") =>
            /\ NewVersionExists(c)
            /\ pub[c].dels = Range(pub[c].txns)

\* C9: whenever publish returns OK the new version exists; a call that wrote
\* the new version returns OK and has attempted the deletion of every listed
\* txn log, whether the deletions succeeded or not; a call that returns OK
\* because the new version was already there attempts no deletion.
C9_OkMeansNewVersionExists ==
    \A c \in Callers :
        Done(c) =>
            /\ pub[c].st = "OK" => NewVersionExists(c)
            /\ pub[c].wrote => (pub[c].st = "OK" /\ pub[c].dels = Range(pub[c].txns))
            /\ (pub[c].st = "OK" /\ ~pub[c].wrote) => pub[c].dels = {}

C9_Witness ==
    \E c \in Callers :
        /\ Done(c)
        /\ pub[c].st = "OK"
        /\ pub[c].wrote
        /\ Len(pub[c].txns) = 2
        /\ pub[c].dels = Range(pub[c].txns)
        /\ pub[c].deleted # pub[c].dels

\* C10: when loading or applying a txn log fails and the new version is not
\* already there, publish returns the error, writes no metadata, attempts no
\* deletion, and leaves the store and the base metadata as they were; also
\* when earlier logs of the list were applied to the copy.
C10_FailedPublishWritesNothing ==
    \A c \in Callers :
        (Done(c) /\ pub[c].failed \in {"load", "apply"}) =>
            /\ pub[c].st \in {"NotFound", "IOError", "InternalError", "NotSupported"}
            /\ pub[c].failed = "apply" => pub[c].st \in {"InternalError", "NotSupported"}
            /\ ~pub[c].wrote
            /\ pub[c].dels = {}
            /\ fs_files = pub[c].fs0
            /\ VisibleBase(c) = pub[c].base_metadata

C10_Witness ==
    \E c \in Callers :
        /\ Done(c)
        /\ pub[c].failed = "apply"
        /\ pub[c].st = "NotSupported"
        /\ pub[c].txns = <<1, 2>>
        /\ fs_files[txn_log_location(pub[c].tablet, 1)]
              = SerializeTxnLog(WriteLog(pub[c].tablet, 1, 2, 5))
        /\ fs_files = pub[c].fs0

(***************************************************************************)
(* Properties of apply_txn_log.                                            *)
(***************************************************************************)
\* the inputs sit at positions p, p + 1, ... of the rowsets, in their order
InputsAt(rowsets, inputs, p) ==
    /\ p + Len(inputs) - 1 <= Len(rowsets)
    /\ \A k \in 1..Len(inputs) : rowsets[p + k - 1].id = inputs[k]

Contiguous(rowsets, inputs) == \E p \in 1..Len(rowsets) : InputsAt(rowsets, inputs, p)

\* the metadata a compaction of contiguous inputs is to leave
Compacted(metadata, op_compaction) ==
    LET rowsets == metadata.rowsets
        inputs == op_compaction.input_rowsets
        p == CHOOSE q \in 1..Len(rowsets) : InputsAt(rowsets, inputs, q)
        before == SubSeq(rowsets, 1, p - 1)
        after == SubSeq(rowsets, p + Len(inputs), Len(rowsets))
        has_rows == op_compaction.has_output_rowset /\ op_compaction.output_rowset.num_rows > 0
    IN  [metadata EXCEPT
           !.rowsets = IF has_rows
                       THEN before \o <<[op_compaction.output_rowset EXCEPT
                                           !.id = metadata.next_rowset_id]>> \o after
                       ELSE before \o after,
           !.next_rowset_id = IF has_rows
                              THEN @ + op_compaction.output_rowset.segments_size
                              ELSE @]

\* C11: a compaction log whose inputs are not contiguous, in their order, in
\* the metadata's rowsets (an absent id and a list longer than the rowsets
\* included) is refused with InternalError and the metadata stays as it was.
C11_NonContiguousInputsRejected ==
    (ap.pc = "done"
        /\ ~Contiguous(ap.metadata.rowsets, ap.log.op_compaction.input_rowsets))
    => (ap.st = "InternalError" /\ ap.md = ap.metadata)

\* C12: a compaction log whose inputs are contiguous and in order is applied
\* with OK: the rowsets before the first input, the output rowset with the
\* old next_rowset_id if it has rows, the rowsets after the last input, and
\* next_rowset_id advanced by the output's segment count.
C12_ContiguousCompactionApplied ==
    (ap.pc = "done"
        /\ Contiguous(ap.metadata.rowsets, ap.log.op_compaction.input_rowsets))
    => (ap.st = "OK" /\ ap.md = Compacted(ap.metadata, ap.log.op_compaction))

(***************************************************************************)
(* Properties of publish over op_write logs.                               *)
(***************************************************************************)
\* the logs of the call's txns as the store held them when publish was
\* entered, in txn order
LogsAtCall(c) ==
    [k \in 1..Len(pub[c].txns) |->
        ParseTxnLog(pub[c].fs0[txn_log_location(pub[c].tablet, pub[c].txns[k])]).val]

\* the rowsets of the logs that carry rows, in order
RECURSIVE RowsetsWithRows(_)
RowsetsWithRows(logs) ==
    IF logs = <<>> THEN <<>>
    ELSE (IF logs[1].op_write.has_rowset /\ logs[1].op_write.rowset.num_rows > 0
          THEN <<logs[1].op_write.rowset>> ELSE <<>>)
         \o RowsetsWithRows(Tail(logs))

\* the segments of the first n rowsets of a sequence
RECURSIVE SegmentsOf(_, _)
SegmentsOf(rowsets, n) ==
    IF n = 0 THEN 0 ELSE SegmentsOf(rowsets, n - 1) + rowsets[n].segments_size

\* the metadata C13 describes
WritesPublished(base, new_version, logs) ==
    LET added == RowsetsWithRows(logs)
    IN  [base EXCEPT
           !.version = new_version,
           !.rowsets = @ \o [k \in 1..Len(added) |->
                               [added[k] EXCEPT
                                  !.id = base.next_rowset_id + SegmentsOf(added, k - 1)]],
           !.next_rowset_id = @ + SegmentsOf(added, Len(added))]

\* C13: a publish over op_write logs that writes the new version leaves
\* there the base metadata with version = new, followed in txn order by the
\* rowsets of the logs that carry rows; each appended rowset gets the id
\* base next_rowset_id + the segments of the rowsets appended before it, and
\* next_rowset_id ends at base next_rowset_id + all appended segments.
C13_WriteLogsAppendInOrder ==
    \A c \in Callers :
        (Done(c) /\ pub[c].wrote) =>
            LET stored == ParseMetadata(fs_files[NewLocation(c)])
            IN  /\ stored.parsed
                /\ stored.val = WritesPublished(pub[c].base_metadata, pub[c].new,
                                                LogsAtCall(c))

C13_Witness ==
    \E c \in Callers :
        /\ Done(c) /\ pub[c].wrote /\ pub[c].st = "OK"
        /\ Len(pub[c].txns) = 2
        /\ Len(pub[c].base_metadata.rowsets) = 2
        /\ Len(RowsetsWithRows(LogsAtCall(c))) = 2
        /\ LogsAtCall(c)[1].op_write.rowset.segments_size = 2
        /\ ParseMetadata(fs_files[NewLocation(c)]).val.next_rowset_id
              = pub[c].base_metadata.next_rowset_id + 3

(***************************************************************************)
(* Properties of put_tablet_metadata and get_tablet_metadata.              *)
(***************************************************************************)
\* C14: a get_tablet_metadata that starts after put_tablet_metadata(md)
\* returned OK, with no other put since, returns md, from the cache or from
\* the store, unless the store fails the read.
C14_GetReturnsWhatWasPut ==
    (mt.get.pc = "done" /\ mt.get.after /\ ~mt.get.fault)
    => (mt.get.st = "OK" /\ mt.get.val = mt.put.md)

(***************************************************************************)
(* Properties of publish when the base version cannot be loaded.           *)
(***************************************************************************)
\* the call has returned without a base metadata: get_metadata(base_version)
\* failed
BaseLoadFailed(c) == Done(c) /\ pub[c].base_metadata.id = 0

BaseMissing(c) == pub[c].fs0[BaseLocation(c)] = NoFile

\* C15 as stated: when the base cannot be loaded publish writes and deletes
\* nothing; it returns OK only when the base is not found and the new
\* version exists, and returns not-found for the base only when the new
\* version does not exist; any other failure of the load is returned.
C15_BaseNotFoundOkIffNewExists ==
    \A c \in Callers :
        BaseLoadFailed(c) =>
            /\ ~pub[c].wrote /\ pub[c].dels = {} /\ fs_files = pub[c].fs0
            /\ pub[c].st \in {"OK", "NotFound", "IOError"}
            /\ pub[c].st = "OK" => (BaseMissing(c) /\ NewVersionExists(c))
            /\ pub[c].st = "NotFound" => (BaseMissing(c) /\ ~NewVersionExists(c))
            /\ pub[c].st = "IOError" => pub[c].fault

\* C15: when the base cannot be loaded publish writes and deletes nothing;
\* it returns OK only when the base is not found and the new version exists;
\* it returns not-found for the base when the new version does not exist or
\* could not be loaded because the store failed; any other failure of the
\* base load is returned.
C15_BaseNotFoundOkIffNewLoads ==
    \A c \in Callers :
        BaseLoadFailed(c) =>
            /\ ~pub[c].wrote /\ pub[c].dels = {} /\ fs_files = pub[c].fs0
            /\ pub[c].st \in {"OK", "NotFound", "IOError"}
            /\ pub[c].st = "OK" => (BaseMissing(c) /\ NewVersionExists(c))
            /\ pub[c].st = "NotFound" =>
                  (BaseMissing(c) /\ (~NewVersionExists(c) \/ pub[c].fault))
            /\ pub[c].st = "IOError" => pub[c].fault

C15_Witness ==
    \E c \in Callers :
        /\ BaseLoadFailed(c)
        /\ BaseMissing(c)
        /\ NewVersionExists(c)
        /\ pub[c].st = "OK"
        /\ pub[c].txns # <<>>

(***************************************************************************)
(* Properties of drop_tablet.                                              *)
(***************************************************************************)
\* C16: once drop_tablet has returned, with every deletion it made
\* succeeding and no other request in progress, no metadata or txn-log
\* object of the tablet is in the store, the cache holds no entry for their
\* paths nor for the tablet's schema, and no step of the drop changed an
\* object or a cache entry of another tablet; a failing deletion or not, the
\* drop that listed the root returns OK.
C16_DropLeavesNothingOfTheTablet ==
    /\ (dr.pc = "done" /\ dr.objects # <<>>) => dr.st = "OK"
    /\ (dr.pc = "done" /\ dr.st = "OK" /\ ~dr.failed /\ mt.get.pc \in {"idle", "done"}) =>
          /\ \A l \in ObjectLocations({dr.tablet}) :
                fs_files[l] = NoFile /\ metacache[l] = NoEntry
          /\ metacache[tablet_schema_cache_key(dr.tablet)] = NoEntry
          /\ ~dr.touched

(***************************************************************************)
(* Properties of compute_priority.                                         *)
(***************************************************************************)
\* the submit counts at which the priority drops by one
Thresholds ==
    {5, 19, 49, 91, 145, 211, 289, 379, 481, 595, 721, 859, 1009, 1171, 1345,
     1531, 1729, 1939, 2161, 2395}

\* C17: compute_priority(n) is 20 less the number of thresholds t <= n, for
\* every n >= 0; it never rises from n to n + 1 and lies within 0..20.
C17_PriorityCountsThresholds ==
    np.n >= 0 =>
        /\ np.nice = 20 - Cardinality({t \in Thresholds : t <= np.n})
        /\ np.nice <= np.last
        /\ np.nice \in 0..20

C17_Witness == np.n = 2395 /\ np.nice = 0 /\ np.last = 1

(***************************************************************************)
(* Where the scanners are.                                                 *)
(***************************************************************************)
\* the scanner is in the pending stack
InPending(s) == \E i \in 1..Len(pending_scanners) : pending_scanners[i] = s

\* the labels at which a task still holds the scanner it was submitted with
OwnerLabels == {"queued", "w_start", "yield_read", "yield_loop", "acquire", "loop",
                "pool", "get_next", "push_back", "epilogue", "resubmit_fail"}

\* the scanner is owned by a worker task, queued in the pool or executing;
\* a scanner get_next has popped and is submitting counts as owned
OwnedByTask(s) == (pc[s] \in OwnerLabels /\ ~sc[s].closed) \/ cSc = s

\* in how many of the three places the scanner is
PlacesOf(s) == (IF InPending(s) THEN 1 ELSE 0) + (IF OwnedByTask(s) THEN 1 ELSE 0)
               + (IF sc[s].closed THEN 1 ELSE 0)

\* C18: whenever _mtx is free to be taken by an observer, each of the
\* num_scanners scanners is in exactly one of the pending stack, a worker
\* task and the closed scanners, so that num_scanners is the sum of the
\* three counts.
C18_EachScannerInOnePlace ==
    mtx = 0 =>
        /\ \A s \in 1..num_scanners : PlacesOf(s) = 1
        /\ num_scanners = Len(pending_scanners)
                          + Cardinality({s \in 1..num_scanners : OwnedByTask(s)})
                          + closed_scanners

(***************************************************************************)
(* The pending token.                                                      *)
(***************************************************************************)
\* the scanners whose pending token is set
TokenHolders == {s \in Scanners : sc[s].pending_token}

\* the labels of a task past its acquire_pending_token
PastAcquire == {"loop", "pool", "get_next", "push_back", "epilogue", "resubmit_fail"}

\* C19: at every reachable state at most one scanner has its pending token
\* set to true.
C19_AtMostOnePendingToken == Cardinality(TokenHolders) <= 1

\* one task holds the token while another task, which went through
\* acquire_pending_token as well, runs without it
C19_Witness ==
    \E s, q \in Scanners :
        /\ s # q
        /\ pc[s] \in PastAcquire /\ sc[s].pending_token
        /\ pc[q] \in PastAcquire /\ ~sc[q].pending_token

(***************************************************************************)
(* The chunks of the pool.                                                 *)
(***************************************************************************)
\* the task's local chunk holds a chunk popped from the pool that has gone
\* neither back to the pool nor into the result queue: between the pop and
\* the push or put, and after a refused put until the task exits
ChunkInHand(s) ==
    \/ pc[s] \in {"get_next", "push_back"}
    \/ pc[s] \in {"epilogue", "close_pending"} /\ lst[s] = "Aborted"

\* _fill_chunk_pool at the start of the scan; afterwards get_next adds one
\* chunk for each chunk it takes out of the result queue
ChunksFilled == chunks_per_scanner * Min(config.max_hdfs_scanner_num, num_scanners)

\* C20: every chunk a task popped from the pool is, by the time the task
\* exits, back in the pool or in the result queue, whichever way the produce
\* loop was left: the chunks of the pool, of the result queue and in the
\* hands of running tasks are all the chunks there are.
C20_PoppedChunksAreReturned ==
    chunk_pool + Len(result_chunks) + Cardinality({s \in Scanners : ChunkInHand(s)})
        = ChunksFilled

(***************************************************************************)
(* running_threads.                                                        *)
(***************************************************************************)
\* the tasks the pool accepted that have not yet run the decrement of their
\* deferred exit handler
TasksNotExited == Cardinality({s \in Scanners : pc[s] \in {"queued"} \cup ExecLabels}) + deferA

\* a step in which a non-blocking _submit_scanner was refused: in the yield
\* loop, in the resubmit of the epilogue, or in the end-of-file replacement
RefusedSubmitStep ==
    \/ \E s, q \in Scanners : pc[s] = "yield_loop" /\ pc[q] # "lost" /\ pc'[q] = "lost"
    \/ \E s \in Scanners : pc[s] = "epilogue" /\ pc'[s] = "resubmit_fail"
    \/ \E s \in Scanners : /\ pc[s] = "eof_next" /\ pc'[s] # "eof_next"
                           /\ pending_scanners # <<>> /\ ~try_offer

C22_FirstNonOkStatusStays == [][status # "OK" => status' = status]_vars

\* the limit installed end-of-file and close then tried to install Cancelled
C22_Witness == limitHit /\ is_closed /\ status = "EndOfFile"

(***************************************************************************)
(* Where get_next blocks.                                                  *)
(***************************************************************************)
\* C23: the admission step of get_next submits the popped scanner without
\* blocking, so get_next is never waiting in the thread pool's blocking
\* offer.
C23_GetNextNeverBlocksOnPool == pcC # "offer"

(***************************************************************************)
(* next_rowset_id over a sequence of applied logs.                         *)
(***************************************************************************)
\* a log was applied successfully
Applied == ap.pc = "seq" /\ ap.n > 0 /\ ap.st = "OK"

\* the applied log added a rowset (op_write with rows) or replaced one
\* (compaction with inputs and an output with rows)
AddedRowset(g) ==
    \/ g.has_op_write /\ g.op_write.has_rowset /\ g.op_write.rowset.num_rows > 0
    \/ /\ g.has_op_compaction /\ g.op_compaction.input_rowsets # <<>>
       /\ g.op_compaction.has_output_rowset
       /\ g.op_compaction.output_rowset.num_rows > 0

\* segments_size() of the rowset the log carries
SegmentsAdded(g) == IF g.has_op_write THEN g.op_write.rowset.segments_size
                    ELSE g.op_compaction.output_rowset.segments_size

\* C24: over a sequence of applied logs next_rowset_id never decreases, and
\* an application that adds or replaces a rowset strictly increases it, by
\* the segment count of that rowset.
C24_NextRowsetIdStrictlyAdvances ==
    Applied =>
        /\ ap.md.next_rowset_id >= ap.metadata.next_rowset_id
        /\ AddedRowset(ap.log) =>
            /\ ap.md.next_rowset_id > ap.metadata.next_rowset_id
            /\ ap.md.next_rowset_id = ap.metadata.next_rowset_id + SegmentsAdded(ap.log)

(***************************************************************************)
(* start_scan and the pool.                                                *)
(***************************************************************************)
\* _start_scan_thread waits in a blocking offer, holding _mtx, and neither
\* a pool thread nor the consumer can take a step
StartScanStuck == pcC = "start" /\ ~ENABLED ScanNext

\* C25: on a pool that runs only the tasks of this node, whatever its
\* thread count and queue capacity, start_scan is never left waiting for
\* ever in a blocking offer by tasks that wait for _mtx.
C25_StartScanNeverStuck == ~StartScanStuck

(***************************************************************************)
(* close and the exit handler of the tasks.                                *)
(***************************************************************************)
\* C26: once close has seen running_threads = 0 and gone on, no task is
\* queued or running, neither in its body nor in its deferred exit handler:
\* no worker touches the node any more.
C26_NoWorkerAfterCloseWait == closeReturned => NoTaskAlive

OwnedScanners == {s \in 1..num_scanners : OwnedByTask(s)}

\* C28: the scanners owned by worker tasks are never more than
\* min(max_hdfs_scanner_num, num_scanners).
C28_OwnedScannersWithinConcurrency ==
    Cardinality(OwnedScanners) <= Min(config.max_hdfs_scanner_num, num_scanners)

(***************************************************************************)
(* The rowset ids of a metadata.                                           *)
(***************************************************************************)
\* the rowset ids are pairwise distinct and all smaller than next_rowset_id
DistinctIdsBelowNext(metadata) ==
    /\ \A j, k \in 1..Len(metadata.rowsets) :
            j # k => metadata.rowsets[j].id # metadata.rowsets[k].id
    /\ \A k \in 1..Len(metadata.rowsets) :
            metadata.rowsets[k].id < metadata.next_rowset_id

\* C29: from a metadata with pairwise distinct rowset ids, all smaller than
\* next_rowset_id, any sequence of successfully applied op_write and
\* op_compaction logs leaves the ids pairwise distinct and smaller than
\* next_rowset_id.
C29_RowsetIdsStayDistinct ==
    (ap.pc = "seq" /\ ap.st = "OK") => DistinctIdsBelowNext(ap.md)

(***************************************************************************)
(* The metacache after a delete.                                           *)
(***************************************************************************)
\* C30: once delete_tablet_metadata has returned OK, with no put after it
\* and no get still under way, the metacache holds no entry for the deleted
\* object, so that a get on that path goes to the store and returns
\* not_found.
C30_NoCacheEntryForDeletedObject ==
    (dr.pc = "done" /\ dr.st = "OK" /\ mt.get.pc \in {"idle", "done"})
    => metacache[dr.location] = NoEntry

(***************************************************************************)
(* Two concurrent publish calls with identical arguments.                  *)
(***************************************************************************)
\* the loop of lines 440-457 run alone: the outcomes of applying the logs in
\* order to new_metadata, stopping at the first log that fails
RECURSIVE SequentialApply(_, _)
SequentialApply(metadata, logs) ==
    IF logs = <<>> THEN {[st |-> "OK", md |-> metadata]}
    ELSE UNION {IF r.st = "OK" THEN SequentialApply(r.md, Tail(logs)) ELSE {r} :
                  r \in {apply_txn_log(logs[1], metadata, garbage) :
                           garbage \in GarbageChoices(logs[1], metadata)}}

\* the metadata a publish of c's arguments running alone can put
SequentialPublished(c) ==
    LET base == ParseMetadata(pub[c].fs0[BaseLocation(c)]).val
        outcomes == SequentialApply([base EXCEPT !.version = pub[c].new],
                                    LogsAtCall(c))
    IN  {o.md : o \in {r \in outcomes : r.st = "OK"}}

TwinDone == \A c \in TwinCallers : Done(c)
TwinNoFault == \A c \in TwinCallers : ~pub[c].fault

\* C31: two publish calls with identical arguments running concurrently on
\* the same tablet, with no store failure and logs a publish running alone
\* can apply, both return OK in every interleaving of their reads, their
\* metadata write and their log deletions, and the object at new_version
\* afterwards is one that a publish running alone puts.
C31_TwinPublishesBothOk ==
    \A c \in TwinCallers :
        (TwinDone /\ TwinNoFault /\ SequentialPublished(c) # {}) =>
            LET stored == ParseMetadata(fs_files[NewLocation(c)])
            IN  /\ pub[c].st = "OK"
                /\ stored.parsed
                /\ stored.val \in SequentialPublished(c)

============================================================================
